---- MODULE Spec2Model ----
(***************************************************************************)
(* The harvester of vio83-ai-orchestra (backend/rag/run_harvest.py) with   *)
(* its persistent progress table (backend/rag/harvest_state.py), the       *)
(* level-1 metadata store it fills (backend/rag/knowledge_distiller.py)    *)
(* and the paginated feeds it reads (backend/rag/open_sources.py).         *)
(*                                                                         *)
(* One operating-system process runs at a time (one CLI command).  What    *)
(* survives a process is the store and the progress table; everything      *)
(* else is process memory and is lost when the process ends or is killed.  *)
(***************************************************************************)
EXTENDS Integers, Sequences, FiniteSets, TLC

VARIABLES
    feed,               \* the remote feeds (mocked APIs): source -> its pages
    cli,                \* the --source and --target values the operator may type
    store,              \* l1_metadata: the set of stored doc_ids
    persisted,          \* harvest_progress: source -> row, or NoProgress
    cmdlog,             \* the last command, how it ended, how the one before it ended
    pc,                 \* where the running process is ("idle": no process)
    queue,              \* harvest calls the running command still has to make
    call,               \* the harvest call in progress
    prog,               \* its HarvestProgress object (process memory)
    batch_count,        \* its local batch_count
    apcontinue,         \* harvest_wikipedia's local apcontinue
    attempt,            \* _retry_with_backoff: index of the attempt in progress
    slept,              \* _retry_with_backoff: the delays slept so far
    wait,               \* _retry_with_backoff: the last delay computed (logged)
    resp,               \* what the adapter returned for the batch
    sent,               \* the cursor the last request carried (NoRequest: none)
    inserted,           \* what distill_batch_metadata returned
    raising,            \* an exception is propagating out of the harvest call
    unsaved,            \* batches the call has committed since its last save_progress
    SHUTDOWN_REQUESTED, \* the process-wide cancellation flag
    tree,               \* the directory a local scan walks: its files in walk order
    scan,               \* scan_and_distill's locals (process memory), or NoScan
    scan_state,         \* local_scan_state: the row of the scan, or NoScanState
    pipe,               \* a Pipeline of distributed_engine.py and its run, or NoPipe
    pool,               \* a call of the map of an executor pool, or NoPool
    kdb,                \* a DistilledKnowledgeDB under distill calls, or NoKdb
    trk,                \* a ProgressTracker shared by worker threads, or NoTracker
    bp,                 \* a BatchProcessor, its producer and consumer, or NoBatchProcessor
    tiers,              \* a TieredStorage and its three backends, or NoTiers
    backend,            \* a StorageBackend operation under _retry, or NoBackend
    codec,              \* a frame of the Compressor and what became of it, or NoCodec
    ftsidx,             \* a full-text index and the search made on it, or NoFts
    kb                  \* a KnowledgeBase query and its result lists, or NoKb

vars == <<feed, cli, store, persisted, cmdlog, pc, queue, call, prog,
          batch_count, apcontinue, attempt, slept, wait, resp, sent, inserted,
          raising, unsaved, SHUTDOWN_REQUESTED, tree, scan, scan_state,
          pipe, pool, kdb, trk, bp, tiers, backend, codec, ftsidx, kb>>

local_vars == <<tree, scan, scan_state>>

\* the state of the harvest commands
harvest_vars == <<feed, cli, store, persisted, cmdlog, pc, queue, call, prog,
                  batch_count, apcontinue, attempt, slept, wait, resp, sent,
                  inserted, raising, unsaved>>

\* the state of the library classes that the harvest commands do not use
other_vars == <<pipe, pool, kdb, trk, bp, tiers, backend, codec, ftsidx, kb>>

\* the state of the classes modelled each on its own
lib_vars == <<trk, bp, tiers, backend, codec, ftsidx, kb>>

\* the state of the compressor, of the search indexes and of the queries
aux_vars == <<codec, ftsidx, kb>>

(***************************************************************************)
(* Bounds of the model.                                                    *)
(***************************************************************************)
MaxPasses == 2          \* no command starts once a row counts this many passes of its feed
MaxErrors == 1          \* no fetch exhausts its retries once a row counts this many errors
MaxFiles == 103         \* the files of the scanned directory
MaxRescanned == 4       \* no scan starts on a finished or paused row that counts this many files

(***************************************************************************)
(* Program constants.                                                      *)
(***************************************************************************)
max_retries == 5
base_backoff == 2
OpenAlexPerPage == 200
OpenAlexSaveEvery == 5
CrossrefSaveEvery == 10
WikiSaveModulus == 500
WikiSaveBelow == 50
scan_batch_size == 100

Sources == {"openalex", "crossref", "wikipedia_it", "wikipedia_en"}
Langs == <<"it", "en">>

\* Python's None where a str is expected; no cursor of the model is this string.
None == "None"
\* No request made yet for the batch.
NoRequest == "NoRequest"
\* load_progress returning None / no HarvestProgress object.
NoProgress == [absent |-> TRUE]
NoCall == [fn |-> "none"]
NoResp == [ok |-> FALSE, batch |-> <<>>, next |-> None]
NoScan == [absent |-> TRUE]
NoPipe == [absent |-> TRUE]
NoPool == [absent |-> TRUE]
NoKdb == [absent |-> TRUE]
NoTracker == [absent |-> TRUE]
NoBatchProcessor == [absent |-> TRUE]
NoTiers == [absent |-> TRUE]
NoBackend == [absent |-> TRUE]
NoCodec == [absent |-> TRUE]
NoFts == [absent |-> TRUE]
NoKb == [absent |-> TRUE]
\* load_scan_state returning None
NoScanState == [absent |-> TRUE]
\* last_file = ""
NoFile == 0

Range(s) == {s[i] : i \in 1..Len(s)}

RECURSIVE Pow2(_)
Pow2(n) == IF n = 0 THEN 1 ELSE 2 * Pow2(n - 1)

RECURSIVE SumLen(_, _)
\* number of records in the first k pages
SumLen(pages, k) == IF k = 0 THEN 0 ELSE SumLen(pages, k - 1) + Len(pages[k])

(***************************************************************************)
(* The feeds.  A feed is a fixed sequence of pages; page k is obtained     *)
(* with the k-th cursor and comes with the cursor of page k+1.  The last   *)
(* page comes with no cursor.                                              *)
(***************************************************************************)
Tok == <<"*", "c02", "c03", "c04", "c05", "c06", "c07", "c08", "c09", "c10",
         "c11", "c12", "c13">>

PageOf(c) == CHOOSE k \in 1..Len(Tok) : Tok[k] = c

EmptyFeed == <<>>

\* the response of a feed to a request for page k
FeedPage(f, k) ==
    IF k <= Len(f)
    THEN [ok |-> TRUE, batch |-> f[k],
          next |-> IF k < Len(f) THEN Tok[k + 1] ELSE None]
    ELSE [ok |-> TRUE, batch |-> <<>>, next |-> None]

(***************************************************************************)
(* RateLimitedClient.get_json swallows every transport error and returns   *)
(* None; fetch_works turns that into ([], None).                           *)
(***************************************************************************)
get_json_failed == [ok |-> FALSE, batch |-> <<>>, next |-> None]

\* OpenAlexConnector.fetch_works(cursor=c): the responses the feed may give.
\* A cursor the feed never issued (the empty string) is answered with an
\* error or by plain first-page paging: both are possible.
OpenAlexFetchWorks(f, c) ==
    IF c \in Range(Tok)
    THEN {FeedPage(f, PageOf(c))}
    ELSE {get_json_failed, [FeedPage(f, 1) EXCEPT !.next = None]}

\* CrossrefConnector.fetch_works(cursor=c): "if cursor" sends it, otherwise
\* (offset = 0) the request starts again with cursor=*.
CrossrefSentCursor(c) == IF c # "" /\ c # None THEN c ELSE "*"

CrossrefFetchWorks(f, c) == {FeedPage(f, PageOf(CrossrefSentCursor(c)))}

\* get_json(allpages) with apcontinue = c; the parameter is left out when c
\* is empty, which enumerates from the first page.  The continuation token
\* of the last page is absent: cont.get("apcontinue", "") is "".
WikiAllPages(f, c) ==
    LET r == FeedPage(f, IF c = "" THEN 1 ELSE PageOf(c))
    IN  {[r EXCEPT !.next = IF r.next = None THEN "" ELSE r.next]}

(***************************************************************************)
(* HarvestProgress and the harvest_progress table.                         *)
(***************************************************************************)
\* HarvestProgress(source=..., cursor=..., target=..., status="running")
HarvestProgress(source, cursor, target) ==
    [source |-> source, cursor |-> cursor, offset |-> 0,
     total_fetched |-> 0, total_inserted |-> 0, total_errors |-> 0,
     target |-> target, status |-> "running"]

\* save_progress: INSERT OR REPLACE of the row of p.source, one transaction
save_progress(tbl, p) == [tbl EXCEPT ![p.source] = p]

\* load_progress: the row of the source, or None
load_progress(tbl, source) == tbl[source]

(***************************************************************************)
(* DistilledKnowledgeDB.distill_batch_metadata: one transaction that       *)
(* INSERTs OR IGNOREs every record and counts every record.                *)
(***************************************************************************)
\* the transaction is never committed
distill_batch_rows_uncommitted(st, batch) == st

distill_batch_rows(st, batch) == st \cup Range(batch)

\* the rows a transaction holds when the INSERT of record k+1 fails
distill_batch_partial(st, batch, k) == st \cup {batch[i] : i \in 1..k}

\* the failed transaction keeps what it wrote
conn_rollback_keeps(before, working) == working

\* _conn: "except Exception: conn.rollback(); raise"
conn_rollback(before, working) == before

\* the record is counted at each of its two INSERTs
distill_batch_count_twice(st, batch) == 2 * Len(batch)

distill_batch_count(st, batch) == Len(batch)

(***************************************************************************)
(* ProductionHarvester: the pieces of harvest_openalex, harvest_crossref   *)
(* and harvest_wikipedia.                                                  *)
(***************************************************************************)
WikiSource(lang) == IF lang = "it" THEN "wikipedia_it" ELSE "wikipedia_en"

\* cmd_resume: p.source.split("_")[1]
WikiLang(source) == IF source = "wikipedia_it" THEN "it" ELSE "en"

HarvestCall(fn, target, resume, langs) ==
    [fn |-> fn, target |-> target, resume |-> resume, langs |-> langs, li |-> 1]

\* the source (key of the progress row) of the call in progress
SourceOf(c) == IF c.fn = "wikipedia" THEN WikiSource(c.langs[c.li]) ELSE c.fn

\* the target the loop of the call compares total_fetched with
\* (harvest_wikipedia: per_lang_target = target // len(langs))
RunTarget(c) == IF c.fn = "wikipedia" THEN c.target \div Len(c.langs) ELSE c.target

\* only a paused row is resumed
ResumeStored_paused_only(loaded, resume) ==
    resume /\ loaded # NoProgress /\ loaded.status = "paused"

\* "prog = load_progress(source) if resume else None;
\*  if prog and prog.status in ("running", "paused")"
ResumeStored(loaded, resume) ==
    resume /\ loaded # NoProgress /\ loaded.status \in {"running", "paused"}

\* the progress object a harvest call starts with and saves before its loop
BeginProgress(c, loaded) ==
    IF c.fn = "wikipedia"
    THEN IF ResumeStored(loaded, c.resume)
         THEN [loaded EXCEPT !.status = "running"]
         ELSE HarvestProgress(SourceOf(c), "", RunTarget(c))
    ELSE LET p == IF ResumeStored(loaded, c.resume)
                  THEN loaded
                  ELSE HarvestProgress(SourceOf(c), "*", c.target)
         IN  [p EXCEPT !.target = c.target, !.status = "running"]

\* harvest_wikipedia: apcontinue = prog.cursor if prog.cursor != "*" else ""
BeginApcontinue(c, loaded) ==
    IF c.fn = "wikipedia" /\ ResumeStored(loaded, c.resume) /\ loaded.cursor # "*"
    THEN loaded.cursor
    ELSE ""

\* the cursor the call hands to its adapter
CursorArgument(c, p, apc) ==
    CASE c.fn = "openalex"  -> p.cursor
      [] c.fn = "crossref"  -> IF p.cursor # "" THEN p.cursor ELSE "*"
      [] c.fn = "wikipedia" -> apc

\* the cursor that goes on the wire
SentCursor(c, arg) == IF c.fn = "crossref" THEN CrossrefSentCursor(arg) ELSE arg

\* the responses the adapter may return to the call
AdapterResponses(c, f, arg) ==
    CASE c.fn = "openalex"  -> OpenAlexFetchWorks(f, arg)
      [] c.fn = "crossref"  -> CrossrefFetchWorks(f, arg)
      [] c.fn = "wikipedia" -> WikiAllPages(f, arg)

\* "next_cursor or ''"; for Wikipedia the token is stored as it is
StoredCursor(c, next) ==
    IF c.fn = "wikipedia" THEN next ELSE IF next = None THEN "" ELSE next

\* "if not next_cursor" / "if not apcontinue"
NoNextCursor(next) == next = None \/ next = ""

\* the loop goes on whatever the flag
LoopContinues_ignores_flag(p, target, shutdown) == p.total_fetched < target

\* "while prog.total_fetched < target and not SHUTDOWN_REQUESTED"
LoopContinues(p, target, shutdown) == p.total_fetched < target /\ ~shutdown

\* the loop never saves
SaveDue_never(c, bc, p) == FALSE

\* the periodic save of the loop
SaveDue(c, bc, p) ==
    CASE c.fn = "openalex"  -> bc % OpenAlexSaveEvery = 0
      [] c.fn = "crossref"  -> bc % CrossrefSaveEvery = 0
      [] c.fn = "wikipedia" -> p.total_fetched % WikiSaveModulus < WikiSaveBelow

\* the shutdown flag is not looked at
ExitStatus_ignores_shutdown(p, target, shutdown) ==
    IF p.total_fetched >= target THEN "completed" ELSE "paused"

\* the finally block: completed if the target is reached, paused if not or
\* if a shutdown was requested
ExitStatus(p, target, shutdown) ==
    IF shutdown THEN "paused"
    ELSE IF p.total_fetched >= target THEN "completed" ELSE "paused"

\* the handler exits at the first signal
signal_handler_always_exits(requested) == [exit |-> TRUE, requested |-> TRUE]

\* signal_handler: "if SHUTDOWN_REQUESTED: sys.exit(1)", otherwise the
\* flag is set
signal_handler(requested) == [exit |-> requested, requested |-> TRUE]

\* _retry_with_backoff: wait = self._base_backoff * (2 ** attempt)
Backoff(a) == base_backoff * Pow2(a)

\* _retry_with_backoff: "if attempt < retries - 1" sleeps and goes on
RetryAgain(a) == a < max_retries - 1

(***************************************************************************)
(* The worlds the model runs in: the feeds, and the --source and --target   *)
(* values the operator types.  The harvests of the model are those of one  *)
(* source per command (--source openalex, crossref or wikipedia) and those *)
(* of the resume command.                                                  *)
(***************************************************************************)
S4Page(k) == [i \in 1..OpenAlexPerPage |-> (k - 1) * OpenAlexPerPage + i]

S4Target == 3 * OpenAlexPerPage

NoFeeds == [s \in Sources |-> EmptyFeed]

\* no directory to scan
NoTree == <<>>

\* a directory of MaxFiles files: the second has an extension that is not
\* supported, the fifth cannot be read (os.stat raises), the others are
\* eligible
LocalTree ==
    [k \in 1..MaxFiles |->
        [path |-> k,
         kind |-> IF k = 2 THEN "unsupported" ELSE IF k = 5 THEN "oserror" ELSE "ok"]]

Worlds ==
    { \* OpenAlex: six pages, a record of page 1 returned again by page 3
      [feed |-> [NoFeeds EXCEPT !["openalex"] =
                    <<<<1, 2>>, <<3>>, <<2, 4>>, <<5>>, <<6>>, <<7>>>>],
       cli |-> [sources |-> {"openalex"}, targets |-> {4, 9}], tree |-> NoTree],
      \* Crossref: eleven pages
      [feed |-> [NoFeeds EXCEPT !["crossref"] =
                    <<<<11>>, <<12>>, <<13>>, <<14>>, <<15>>, <<16>>,
                      <<17>>, <<18>>, <<19>>, <<20>>, <<21, 11>>>>],
       cli |-> [sources |-> {"crossref"}, targets |-> {2, 13}], tree |-> NoTree],
      \* Wikipedia: two languages
      [feed |-> [NoFeeds EXCEPT !["wikipedia_it"] =
                    <<<<31>>, <<32, 33>>, <<34>>>>,
                                !["wikipedia_en"] =
                    <<<<41, 42>>, <<43>>>>],
       cli |-> [sources |-> {"wikipedia"}, targets |-> {8}], tree |-> NoTree],
      \* scenario S4: OpenAlex, three pages of 200
      [feed |-> [NoFeeds EXCEPT !["openalex"] =
                    <<S4Page(1), S4Page(2), S4Page(3)>>],
       cli |-> [sources |-> {"openalex"}, targets |-> {S4Target}], tree |-> NoTree],
      \* a local directory, no remote source
      [feed |-> NoFeeds,
       cli |-> [sources |-> {}, targets |-> {}], tree |-> LocalTree] }

(***************************************************************************)
(* The log of commands: the commands typed and how each process ended.     *)
(***************************************************************************)
\* how a process ended, as far as the checks need it:
\*   clean           the command returned, no call of it failed, no shutdown
\*   interrupted     the command returned after a shutdown request, no call failed
\*   killed_between  killed between two batches of a harvest loop
\*   other           any other end
\* n counts the commands launched: 1, 2, and 3 for any later one
NoLog == [n |-> 0, prev |-> "none", cmd |-> "none", end |-> "none", faults |-> FALSE]

\* a command is launched: the end of the previous one is kept
Launched(log, cmd) ==
    [n |-> IF log.n < 3 THEN log.n + 1 ELSE 3,
     prev |-> log.end, cmd |-> cmd, end |-> "running", faults |-> FALSE]

Faulted(log) == [log EXCEPT !.faults = TRUE]

Ended(log, end) == [log EXCEPT !.end = end, !.faults = FALSE]

Running == pc # "idle"

ResetMemory ==
    /\ queue' = <<>>
    /\ call' = NoCall
    /\ prog' = NoProgress
    /\ batch_count' = 0
    /\ apcontinue' = ""
    /\ attempt' = 0
    /\ slept' = <<>>
    /\ wait' = 0
    /\ resp' = NoResp
    /\ sent' = NoRequest
    /\ inserted' = 0
    /\ raising' = FALSE
    /\ unsaved' = 0
    /\ SHUTDOWN_REQUESTED' = FALSE

Init ==
    /\ \E w \in Worlds : feed = w.feed /\ cli = w.cli /\ tree = w.tree
    /\ scan = NoScan
    /\ scan_state = NoScanState
    /\ pipe = NoPipe
    /\ pool = NoPool
    /\ kdb = NoKdb
    /\ trk = NoTracker /\ bp = NoBatchProcessor
    /\ tiers = NoTiers /\ backend = NoBackend
    /\ store = {}
    /\ persisted = [s \in Sources |-> NoProgress]
    /\ cmdlog = NoLog
    /\ pc = "idle"
    /\ queue = <<>>
    /\ call = NoCall
    /\ prog = NoProgress
    /\ batch_count = 0
    /\ apcontinue = ""
    /\ attempt = 0
    /\ slept = <<>>
    /\ wait = 0
    /\ resp = NoResp
    /\ sent = NoRequest
    /\ inserted = 0
    /\ raising = FALSE
    /\ unsaved = 0
    /\ SHUTDOWN_REQUESTED = FALSE
    /\ codec = NoCodec /\ ftsidx = NoFts /\ kb = NoKb

(***************************************************************************)
(* The commands of the CLI.                                                *)
(***************************************************************************)
\* cmd_harvest --source src --target t [--fresh], for one source
cmd_harvest_calls(src, t, fresh) ==
    CASE src = "openalex"  -> << HarvestCall("openalex", t, ~fresh, <<>>) >>
      [] src = "crossref"  -> << HarvestCall("crossref", t, ~fresh, <<>>) >>
      [] src = "wikipedia" -> << HarvestCall("wikipedia", t, ~fresh, Langs) >>

\* the rows still marked running are taken, the paused ones are not
ResumeCandidates_running(tbl) ==
    {s \in Sources : tbl[s] # NoProgress /\ tbl[s].status = "running"}

\* cmd_resume: paused = [p for p in progs if p.status == "paused"]
ResumeCandidates(tbl) ==
    {s \in Sources : tbl[s] # NoProgress /\ tbl[s].status = "paused"}

\* cmd_resume: the harvest call made for a paused row
ResumeCall(p) ==
    IF p.source \in {"openalex", "crossref"}
    THEN HarvestCall(p.source, p.target, TRUE, <<>>)
    ELSE HarvestCall("wikipedia", p.target, TRUE, <<WikiLang(p.source)>>)

\* load_all_progress has no ORDER BY: the rows come in any order
Orders(S) ==
    {q \in [1..Cardinality(S) -> S] : \A i, j \in 1..Cardinality(S) : q[i] = q[j] => i = j}

\* the records of a whole feed
FeedSize(f) == SumLen(f, Len(f))

\* commands are launched while no counter has run up to the bound
MayStart ==
    \A s \in Sources :
        persisted[s] # NoProgress =>
            persisted[s].total_fetched < MaxPasses * FeedSize(feed[s]) + 1

CmdHarvest ==
    /\ pc = "idle"
    /\ MayStart
    /\ \E src \in cli.sources, t \in cli.targets,
          fresh \in BOOLEAN :
          /\ cmdlog' = Launched(cmdlog, "harvest")
          /\ queue' = cmd_harvest_calls(src, t, fresh)
    /\ pc' = "next"
    /\ UNCHANGED <<unsaved, feed, cli, store, persisted, call, prog, batch_count,
                   apcontinue, attempt, slept, wait, resp, sent, inserted,
                   raising, SHUTDOWN_REQUESTED>>
    /\ UNCHANGED local_vars
    /\ UNCHANGED other_vars

CmdResume ==
    /\ pc = "idle"
    /\ MayStart
    /\ cmdlog' = Launched(cmdlog, "resume")
    /\ \E q \in Orders(ResumeCandidates(persisted)) :
          queue' = [i \in 1..Len(q) |-> ResumeCall(persisted[q[i]])]
    /\ pc' = "next"
    /\ UNCHANGED <<unsaved, feed, cli, store, persisted, call, prog, batch_count,
                   apcontinue, attempt, slept, wait, resp, sent, inserted,
                   raising, SHUTDOWN_REQUESTED>>
    /\ UNCHANGED local_vars
    /\ UNCHANGED other_vars

\* the command goes on to its next harvest call, unless a shutdown was
\* requested ("if not SHUTDOWN_REQUESTED" / "if SHUTDOWN_REQUESTED: break")
NextCall ==
    /\ pc = "next"
    /\ queue # <<>> /\ ~SHUTDOWN_REQUESTED
    /\ call' = Head(queue)
    /\ queue' = Tail(queue)
    /\ pc' = IF Head(queue).fn = "wikipedia" THEN "lang" ELSE "begin"
    /\ UNCHANGED <<unsaved, feed, cli, store, persisted, cmdlog, prog, batch_count,
                   apcontinue, attempt, slept, wait, resp, sent, inserted,
                   raising, SHUTDOWN_REQUESTED>>
    /\ UNCHANGED local_vars
    /\ UNCHANGED other_vars

\* the command returns and the process ends
Exit ==
    /\ pc = "next"
    /\ queue = <<>> \/ SHUTDOWN_REQUESTED
    /\ cmdlog' = Ended(cmdlog, IF cmdlog.faults THEN "other"
                               ELSE IF SHUTDOWN_REQUESTED THEN "interrupted"
                               ELSE "clean")
    /\ pc' = "idle"
    /\ ResetMemory
    /\ UNCHANGED <<feed, cli, store, persisted>>
    /\ UNCHANGED local_vars
    /\ UNCHANGED other_vars

\* harvest_wikipedia: "for lang in langs: if SHUTDOWN_REQUESTED: break"
WikiNextLang ==
    /\ pc = "lang"
    /\ pc' = IF call.li <= Len(call.langs) /\ ~SHUTDOWN_REQUESTED
             THEN "begin" ELSE "next"
    /\ UNCHANGED <<unsaved, feed, cli, store, persisted, cmdlog, queue, call, prog,
                   batch_count, apcontinue, attempt, slept, wait, resp, sent,
                   inserted, raising, SHUTDOWN_REQUESTED>>
    /\ UNCHANGED local_vars
    /\ UNCHANGED other_vars

(***************************************************************************)
(* A harvest call.                                                         *)
(***************************************************************************)
\* load or create the progress, set it running, save it
Begin ==
    /\ pc = "begin"
    /\ LET loaded == load_progress(persisted, SourceOf(call))
           p == BeginProgress(call, loaded)
       IN  /\ prog' = p
           /\ apcontinue' = BeginApcontinue(call, loaded)
           /\ persisted' = save_progress(persisted, p)
    /\ batch_count' = 0
    /\ unsaved' = 0
    /\ pc' = "loop"
    /\ UNCHANGED <<feed, cli, store, cmdlog, queue, call, attempt, slept,
                   wait, resp, sent, inserted, raising, SHUTDOWN_REQUESTED>>
    /\ UNCHANGED local_vars
    /\ UNCHANGED other_vars

\* while prog.total_fetched < target and not SHUTDOWN_REQUESTED
LoopCheck ==
    /\ pc = "loop"
    /\ pc' = IF LoopContinues(prog, RunTarget(call), SHUTDOWN_REQUESTED)
             THEN "fetch" ELSE "finally"
    /\ attempt' = 0
    /\ slept' = <<>>
    /\ wait' = 0
    /\ sent' = NoRequest
    /\ resp' = NoResp
    /\ UNCHANGED <<unsaved, feed, cli, store, persisted, cmdlog, queue, call, prog,
                   batch_count, apcontinue, inserted, raising, SHUTDOWN_REQUESTED>>
    /\ UNCHANGED local_vars
    /\ UNCHANGED other_vars

\* an attempt of _retry_with_backoff in which the adapter returns: a page of
\* the feed, or nothing because get_json swallowed a transport error
FetchReturns ==
    /\ pc = "fetch"
    /\ LET arg == CursorArgument(call, prog, apcontinue)
       IN  /\ sent' = SentCursor(call, arg)
           /\ \E r \in AdapterResponses(call, feed[SourceOf(call)], arg)
                       \cup {get_json_failed} :
                 /\ resp' = r
                 /\ cmdlog' = IF r.ok THEN cmdlog ELSE Faulted(cmdlog)
                 \* "if not batch: break" / "if not data or ...: break"
                 /\ pc' = IF r.batch = <<>> THEN "finally" ELSE "insert"
    /\ UNCHANGED <<unsaved, feed, cli, store, persisted, queue, call, prog,
                   batch_count, apcontinue, attempt, slept, wait, inserted,
                   raising, SHUTDOWN_REQUESTED>>
    /\ UNCHANGED local_vars
    /\ UNCHANGED other_vars

\* an attempt in which fetch_works raises (a payload it cannot parse): the
\* delay is computed and logged, slept if attempts are left; after the last
\* attempt the exception reaches the harvest loop, which counts it, saves
\* and breaks.  client.get_json, the function harvest_wikipedia retries,
\* catches everything and never raises.
FetchRaises ==
    /\ pc = "fetch"
    /\ call.fn # "wikipedia"
    /\ prog.total_errors < MaxErrors
    /\ sent' = SentCursor(call, CursorArgument(call, prog, apcontinue))
    /\ wait' = Backoff(attempt)
    /\ cmdlog' = Faulted(cmdlog)
    /\ IF RetryAgain(attempt)
       THEN /\ slept' = Append(slept, Backoff(attempt))
            /\ attempt' = attempt + 1
            /\ UNCHANGED <<prog, persisted, pc, unsaved>>
       ELSE /\ prog' = [prog EXCEPT !.total_errors = @ + 1]
            /\ persisted' = save_progress(persisted, prog')
            /\ unsaved' = 0
            /\ pc' = "finally"
            /\ UNCHANGED <<slept, attempt>>
    /\ UNCHANGED <<feed, cli, store, queue, call, batch_count, apcontinue,
                   resp, inserted, raising, SHUTDOWN_REQUESTED>>
    /\ UNCHANGED local_vars
    /\ UNCHANGED other_vars

\* distill_batch_metadata commits its transaction
Insert ==
    /\ pc = "insert"
    /\ store' = distill_batch_rows(store, resp.batch)
    /\ inserted' = distill_batch_count(store, resp.batch)
    /\ unsaved' = unsaved + 1
    /\ pc' = "update"
    /\ UNCHANGED <<feed, cli, persisted, cmdlog, queue, call, prog,
                   batch_count, apcontinue, attempt, slept, wait, resp, sent,
                   raising, SHUTDOWN_REQUESTED>>
    /\ UNCHANGED local_vars
    /\ UNCHANGED other_vars

\* distill_batch_metadata fails, at its first record or at its last: _conn
\* rolls the transaction back and the
\* exception leaves the harvest call through its finally block
InsertFails ==
    /\ pc = "insert"
    /\ \E k \in {0, Len(resp.batch) - 1} :
          store' = conn_rollback(store, distill_batch_partial(store, resp.batch, k))
    /\ raising' = TRUE
    /\ cmdlog' = Faulted(cmdlog)
    /\ pc' = "finally"
    /\ UNCHANGED <<unsaved, feed, cli, persisted, queue, call, prog,
                   batch_count, apcontinue, attempt, slept, wait, resp, sent,
                   inserted, SHUTDOWN_REQUESTED>>
    /\ UNCHANGED local_vars
    /\ UNCHANGED other_vars

\* the counters and the cursor are advanced, the progress is saved when due
Update ==
    /\ pc = "update"
    /\ LET p == [prog EXCEPT !.total_fetched = @ + Len(resp.batch),
                             !.total_inserted = @ + inserted,
                             !.cursor = StoredCursor(call, resp.next)]
           bc == IF call.fn = "wikipedia" THEN batch_count ELSE batch_count + 1
           \* harvest_wikipedia breaks on an empty token before its save
           save == SaveDue(call, bc, p)
                   /\ ~(call.fn = "wikipedia" /\ NoNextCursor(resp.next))
       IN  /\ prog' = p
           /\ batch_count' = bc
           /\ persisted' = IF save THEN save_progress(persisted, p) ELSE persisted
           /\ unsaved' = IF save THEN 0 ELSE unsaved
    /\ apcontinue' = IF call.fn = "wikipedia" THEN resp.next ELSE apcontinue
    /\ sent' = NoRequest
    /\ pc' = IF NoNextCursor(resp.next) THEN "finally" ELSE "loop"
    /\ UNCHANGED <<feed, cli, store, cmdlog, queue, call, attempt, slept,
                   wait, resp, inserted, raising, SHUTDOWN_REQUESTED>>
    /\ UNCHANGED local_vars
    /\ UNCHANGED other_vars

\* the finally block: the exit status is set and saved; then the call
\* returns, or the exception that is propagating ends the process
Finally ==
    /\ pc = "finally"
    /\ LET p == [prog EXCEPT !.status =
                    ExitStatus(prog, RunTarget(call), SHUTDOWN_REQUESTED)]
       IN  /\ persisted' = save_progress(persisted, p)
           /\ IF raising
              THEN /\ cmdlog' = Ended(cmdlog, "other")
                   /\ pc' = "idle"
                   /\ ResetMemory
              ELSE /\ UNCHANGED cmdlog
                   /\ pc' = IF call.fn = "wikipedia" THEN "lang" ELSE "next"
                   /\ call' = IF call.fn = "wikipedia"
                              THEN [call EXCEPT !.li = @ + 1] ELSE NoCall
                   /\ prog' = NoProgress
                   /\ batch_count' = 0
                   /\ apcontinue' = ""
                   /\ attempt' = 0
                   /\ slept' = <<>>
                   /\ wait' = 0
                   /\ resp' = NoResp
                   /\ sent' = NoRequest
                   /\ inserted' = 0
                   /\ unsaved' = 0
                   /\ UNCHANGED <<queue, raising, SHUTDOWN_REQUESTED>>
    /\ UNCHANGED <<feed, cli, store>>
    /\ UNCHANGED local_vars
    /\ UNCHANGED other_vars

(***************************************************************************)
(* LocalMacDistiller.scan_and_distill, run by the command "local".         *)
(***************************************************************************)
\* doc_id = md5(fpath): one id per path, none shared with a remote record
LocalDocId(path) == 1000 + path

\* a variant of save_scan_state that records the path after the given one
save_scan_state_next(files_scanned, files_indexed, last_file, status) ==
    [files_scanned |-> files_scanned, files_indexed |-> files_indexed,
     last_file |-> IF last_file = NoFile THEN NoFile ELSE last_file + 1,
     status |-> status]

\* save_scan_state: INSERT OR REPLACE of the row of the scan
save_scan_state(files_scanned, files_indexed, last_file, status) ==
    [files_scanned |-> files_scanned, files_indexed |-> files_indexed,
     last_file |-> last_file, status |-> status]

\* the locals of scan_and_distill after load_scan_state
ScanLocals(prev) ==
    LET last == IF prev = NoScanState THEN NoFile ELSE prev.last_file IN
    [i |-> 1,
     batch |-> <<>>,
     last_file |-> last,
     files_scanned |-> IF prev = NoScanState THEN 0 ELSE prev.files_scanned,
     files_indexed |-> IF prev = NoScanState THEN 0 ELSE prev.files_indexed,
     past_resume_point |-> (last = NoFile)]

\* "for fname in sorted(files): if SHUTDOWN_REQUESTED: break"
ScanContinues(i, n, shutdown) == i <= n /\ ~shutdown

\* the file is skipped while the resume point is not passed
ScanSkipsForResume(sc) == ~sc.past_resume_point

\* the file adds a record to the batch
ScanTakes(sc, f) == sc.past_resume_point /\ f.kind = "ok"

\* "if len(batch) >= batch_size" once the record of the file is appended
ScanFlushDue(sc, f) == ScanTakes(sc, f) /\ Len(sc.batch) + 1 >= scan_batch_size

\* scans are started while the row, if finished or paused, counts few files
MayScan ==
    IF scan_state = NoScanState THEN TRUE
    ELSE scan_state.status = "running" \/ scan_state.files_scanned < MaxRescanned

\* cmd_local
CmdLocal ==
    /\ pc = "idle"
    /\ tree # NoTree
    /\ MayScan
    /\ cmdlog' = Launched(cmdlog, "local")
    /\ pc' = "scan_begin"
    /\ UNCHANGED <<unsaved, feed, cli, store, persisted, queue, call, prog,
                   batch_count, apcontinue, attempt, slept, wait, resp, sent,
                   inserted, raising, SHUTDOWN_REQUESTED>>
    /\ UNCHANGED local_vars
    /\ UNCHANGED other_vars

\* the previous state of the scan is loaded
ScanBegin ==
    /\ pc = "scan_begin"
    /\ scan' = ScanLocals(scan_state)
    /\ pc' = "scan_check"
    /\ UNCHANGED <<unsaved, feed, cli, store, persisted, cmdlog, queue, call,
                   prog, batch_count, apcontinue, attempt, slept, wait, resp,
                   sent, inserted, raising, SHUTDOWN_REQUESTED, tree, scan_state>>
    /\ UNCHANGED other_vars

\* the head of the walk: the next file, unless a shutdown was requested
ScanCheck ==
    /\ pc = "scan_check"
    /\ pc' = IF ScanContinues(scan.i, Len(tree), SHUTDOWN_REQUESTED)
             THEN "scan_file" ELSE "scan_end"
    /\ UNCHANGED <<unsaved, feed, cli, store, persisted, cmdlog, queue, call,
                   prog, batch_count, apcontinue, attempt, slept, wait, resp,
                   sent, inserted, raising, SHUTDOWN_REQUESTED>>
    /\ UNCHANGED local_vars
    /\ UNCHANGED other_vars

\* one file of the walk: skipped before the resume point, skipped if not
\* supported or not readable, otherwise counted and appended to the batch,
\* which is flushed and the state saved when it holds batch_size records
ScanFile ==
    /\ pc = "scan_file"
    /\ LET f == tree[scan.i]
           next == [scan EXCEPT !.i = @ + 1]
       IN  IF ScanSkipsForResume(scan)
           THEN /\ scan' = [next EXCEPT !.past_resume_point = (f.path = scan.last_file)]
                /\ UNCHANGED <<store, scan_state>>
           ELSE IF ~ScanTakes(scan, f)
           THEN /\ scan' = next
                /\ UNCHANGED <<store, scan_state>>
           ELSE LET b == Append(scan.batch, LocalDocId(f.path))
                    counted == [next EXCEPT !.files_scanned = @ + 1]
                IN  IF ScanFlushDue(scan, f)
                    THEN /\ store' = distill_batch_rows(store, b)
                         /\ scan' = [counted EXCEPT
                                        !.files_indexed = @ + distill_batch_count(store, b),
                                        !.batch = <<>>]
                         /\ scan_state' = save_scan_state(scan'.files_scanned,
                                              scan'.files_indexed, f.path, "running")
                    ELSE /\ scan' = [counted EXCEPT !.batch = b]
                         /\ UNCHANGED <<store, scan_state>>
    /\ pc' = "scan_check"
    /\ UNCHANGED <<unsaved, feed, cli, persisted, cmdlog, queue, call,
                   prog, batch_count, apcontinue, attempt, slept, wait, resp,
                   sent, inserted, raising, SHUTDOWN_REQUESTED, tree>>
    /\ UNCHANGED other_vars

\* the last batch is flushed, the final state is saved and the command
\* returns
ScanEnd ==
    /\ pc = "scan_end"
    /\ store' = IF scan.batch # <<>> THEN distill_batch_rows(store, scan.batch)
                ELSE store
    /\ LET indexed == IF scan.batch # <<>>
                      THEN scan.files_indexed + distill_batch_count(store, scan.batch)
                      ELSE scan.files_indexed
       IN  scan_state' = save_scan_state(scan.files_scanned, indexed, NoFile,
                             IF SHUTDOWN_REQUESTED THEN "paused" ELSE "completed")
    /\ cmdlog' = Ended(cmdlog, IF SHUTDOWN_REQUESTED THEN "interrupted" ELSE "clean")
    /\ pc' = "idle"
    /\ ResetMemory
    /\ scan' = NoScan
    /\ UNCHANGED <<feed, cli, persisted, tree>>
    /\ UNCHANGED other_vars

\* a flush fails: distill_batch_metadata raises, its transaction is rolled
\* back, and nothing catches the exception before the end of the process
ScanWriteFails ==
    /\ \/ pc = "scan_file" /\ ScanFlushDue(scan, tree[scan.i])
       \/ pc = "scan_end" /\ scan.batch # <<>>
    /\ LET b == IF pc = "scan_file"
                 THEN Append(scan.batch, LocalDocId(tree[scan.i].path))
                 ELSE scan.batch
       IN  \E k \in {0, Len(b) - 1} :
              store' = conn_rollback(store, distill_batch_partial(store, b, k))
    /\ cmdlog' = Ended(cmdlog, "other")
    /\ pc' = "idle"
    /\ ResetMemory
    /\ scan' = NoScan
    /\ UNCHANGED <<feed, cli, persisted, tree, scan_state>>
    /\ UNCHANGED other_vars

(***************************************************************************)
(* Signals.                                                                *)
(***************************************************************************)
\* signal_handler, a SIGINT or SIGTERM that finds the flag down: it is set
\* between two scans the file the saved state names is deleted or renamed:
\* os.walk no longer yields its path
FileRemoved ==
    /\ pc = "idle"
    /\ Len(tree) = MaxFiles
    /\ IF scan_state = NoScanState THEN FALSE ELSE scan_state.last_file # NoFile
    /\ tree' = SelectSeq(tree, LAMBDA f : f.path # scan_state.last_file)
    /\ UNCHANGED <<unsaved, feed, cli, store, persisted, cmdlog, queue, call,
                   prog, batch_count, apcontinue, attempt, slept, wait, resp,
                   sent, inserted, raising, SHUTDOWN_REQUESTED, scan, scan_state,
                   pc>>
    /\ UNCHANGED other_vars

Sigint ==
    /\ Running
    /\ ~signal_handler(SHUTDOWN_REQUESTED).exit
    /\ SHUTDOWN_REQUESTED' = signal_handler(SHUTDOWN_REQUESTED).requested
    /\ UNCHANGED <<unsaved, feed, cli, store, persisted, cmdlog, pc, queue, call,
                   prog, batch_count, apcontinue, attempt, slept, wait, resp,
                   sent, inserted, raising>>
    /\ UNCHANGED local_vars
    /\ UNCHANGED other_vars

\* signal_handler, a signal that finds the flag up: sys.exit(1) raises
\* SystemExit where the main thread is.  Inside the try of a harvest call
\* it runs the finally block on its way out; anywhere else (before the
\* try, inside the finally block, in a local scan) nothing is between it
\* and the end of the process.
SigintAgain ==
    /\ Running
    /\ signal_handler(SHUTDOWN_REQUESTED).exit
    /\ IF pc \in {"loop", "fetch", "insert", "update"}
       THEN /\ raising' = TRUE
            /\ pc' = "finally"
            /\ UNCHANGED <<unsaved, cmdlog, queue, call, prog, batch_count,
                           apcontinue, attempt, slept, wait, resp, sent,
                           inserted, SHUTDOWN_REQUESTED, scan>>
       ELSE /\ cmdlog' = Ended(cmdlog, "other")
            /\ pc' = "idle"
            /\ ResetMemory
            /\ scan' = NoScan
    /\ UNCHANGED <<feed, cli, store, persisted, tree, scan_state>>
    /\ UNCHANGED other_vars

\* the process is killed (SIGKILL, power loss): its memory is gone, the
\* databases keep what was committed
Kill ==
    /\ Running
    /\ cmdlog' = Ended(cmdlog, IF pc = "loop" /\ batch_count > 0
                               THEN "killed_between" ELSE "other")
    /\ pc' = "idle"
    /\ ResetMemory
    /\ scan' = NoScan
    /\ UNCHANGED <<feed, cli, store, persisted, tree, scan_state>>
    /\ UNCHANGED other_vars

Next ==
    \/ CmdHarvest
    \/ CmdResume
    \/ NextCall
    \/ Exit
    \/ WikiNextLang
    \/ Begin
    \/ LoopCheck
    \/ FetchReturns
    \/ FetchRaises
    \/ Insert
    \/ InsertFails
    \/ Update
    \/ Finally
    \/ CmdLocal
    \/ ScanBegin
    \/ ScanCheck
    \/ ScanFile
    \/ ScanEnd
    \/ ScanWriteFails
    \/ FileRemoved
    \/ Sigint
    \/ SigintAgain
    \/ Kill

Spec == Init /\ [][Next]_vars

(***************************************************************************)
(* Pipeline (distributed_engine.py): stages added with add_stage, then run *)
(* over a list of items.  The process it runs in has the signal handler of *)
(* run_harvest.py installed, so a signal sets the process-wide flag.       *)
(***************************************************************************)
MaxStages == 3          \* stages a pipeline is built with, at most

StageNames == {"a", "b", "c"}

\* the depends_on lists a stage is added with: none, one stage (which may
\* be itself or a stage that is never added), or two stages
DependsOnChoices ==
    {<<>>} \cup {<<n>> : n \in StageNames}
           \cup {<<x[1], x[2]>> : x \in {y \in StageNames \X StageNames : y[1] # y[2]}}

\* the items a pipeline is run over
PipelineItems == <<1, 2>>

\* what pool.map returns for a stage: the results of the items that did not
\* fail, in the order of the input (a result is named after its item)
RECURSIVE SubSeqs(_)
SubSeqs(q) ==
    IF q = <<>> THEN {<<>>}
    ELSE LET rest == SubSeqs(Tail(q))
         IN  rest \cup {<<Head(q)>> \o r : r \in rest}

\* self._stages as (name, depends_on) in insertion order
StageIndex(stages, name) == CHOOSE i \in 1..Len(stages) : stages[i].name = name
HasStage(stages, name) == \E i \in 1..Len(stages) : stages[i].name = name
DependsOn(stages, name) == stages[StageIndex(stages, name)].depends_on

\* _topological_sort: visit(name) marks the stage, visits its dependencies
\* that are stages, then appends the stage
RECURSIVE visit(_, _, _)
RECURSIVE visit_deps(_, _, _)
visit(stages, name, st) ==
    IF name \in st.visited THEN st
    ELSE LET marked == [st EXCEPT !.visited = @ \cup {name}]
             after == visit_deps(stages, DependsOn(stages, name), marked)
         IN  [after EXCEPT !.order = Append(@, name)]

visit_deps(stages, deps, st) ==
    IF deps = <<>> THEN st
    ELSE visit_deps(stages, Tail(deps),
                    IF HasStage(stages, Head(deps))
                    THEN visit(stages, Head(deps), st) ELSE st)

RECURSIVE visit_all(_, _, _)
visit_all(stages, i, st) ==
    IF i > Len(stages) THEN st
    ELSE visit_all(stages, i + 1, visit(stages, stages[i].name, st))

topological_sort(stages) ==
    visit_all(stages, 1, [visited |-> {}, order |-> <<>>]).order

\* Pipeline(): no stage
NewPipeline ==
    [pc |-> "build", stages |-> <<>>, order |-> <<>>, k |-> 0,
     input |-> <<>>, stage_results |-> <<>>]

\* stage_results as a sequence of (name, results), one entry per stage run
HasResults(sr, name) == \E i \in 1..Len(sr) : sr[i].name = name
ResultsOf(sr, name) == sr[CHOOSE i \in 1..Len(sr) : sr[i].name = name].results

InitPipeline ==
    /\ feed = NoFeeds /\ cli = [sources |-> {}, targets |-> {}] /\ tree = NoTree
    /\ store = {} /\ persisted = [s \in Sources |-> NoProgress]
    /\ cmdlog = NoLog /\ pc = "idle" /\ queue = <<>> /\ call = NoCall
    /\ prog = NoProgress /\ batch_count = 0 /\ apcontinue = ""
    /\ attempt = 0 /\ slept = <<>> /\ wait = 0 /\ resp = NoResp
    /\ sent = NoRequest /\ inserted = 0 /\ raising = FALSE /\ unsaved = 0
    /\ SHUTDOWN_REQUESTED = FALSE
    /\ codec = NoCodec /\ ftsidx = NoFts /\ kb = NoKb
    /\ scan = NoScan /\ scan_state = NoScanState
    /\ pool = NoPool /\ kdb = NoKdb
    /\ trk = NoTracker /\ bp = NoBatchProcessor
    /\ tiers = NoTiers /\ backend = NoBackend
    /\ pipe = NewPipeline

\* add_stage(name, fn, depends_on): the stage is recorded and the order is
\* computed again
add_stage ==
    /\ pipe.pc = "build"
    /\ Len(pipe.stages) < MaxStages
    /\ \E n \in StageNames, d \in DependsOnChoices :
          /\ ~HasStage(pipe.stages, n)
          /\ LET stages == Append(pipe.stages, [name |-> n, depends_on |-> d])
             IN  pipe' = [pipe EXCEPT !.stages = stages,
                                      !.order = topological_sort(stages)]
    /\ UNCHANGED <<harvest_vars, SHUTDOWN_REQUESTED, local_vars, pool, kdb, lib_vars>>

\* run(items) is called
PipelineRun ==
    /\ pipe.pc = "build"
    /\ pipe' = [pipe EXCEPT !.pc = "between", !.k = 1]
    /\ UNCHANGED <<harvest_vars, SHUTDOWN_REQUESTED, local_vars, pool, kdb, lib_vars>>

\* the next stage of the order starts: its input is stage_results of its
\* first dependency (a KeyError if that stage has not run), or the items
StageStart ==
    /\ pipe.pc = "between"
    /\ pipe.k <= Len(pipe.order)
    /\ LET d == DependsOn(pipe.stages, pipe.order[pipe.k])
       IN  IF d = <<>>
           THEN pipe' = [pipe EXCEPT !.pc = "stage", !.input = PipelineItems]
           ELSE IF HasResults(pipe.stage_results, d[1])
           THEN pipe' = [pipe EXCEPT !.pc = "stage",
                                     !.input = ResultsOf(pipe.stage_results, d[1])]
           ELSE pipe' = [pipe EXCEPT !.pc = "raised"]
    /\ UNCHANGED <<harvest_vars, SHUTDOWN_REQUESTED, local_vars, pool, kdb, lib_vars>>

\* pool.map returns and the results of the stage are recorded
StageFinish ==
    /\ pipe.pc = "stage"
    /\ \E r \in SubSeqs(pipe.input) :
          pipe' = [pipe EXCEPT
                      !.pc = "between",
                      !.k = @ + 1,
                      !.input = <<>>,
                      !.stage_results =
                          Append(@, [name |-> pipe.order[pipe.k], results |-> r])]
    /\ UNCHANGED <<harvest_vars, SHUTDOWN_REQUESTED, local_vars, pool, kdb, lib_vars>>

\* the order is used up: run returns stage_results
PipelineReturn ==
    /\ pipe.pc = "between"
    /\ pipe.k > Len(pipe.order)
    /\ pipe' = [pipe EXCEPT !.pc = "returned"]
    /\ UNCHANGED <<harvest_vars, SHUTDOWN_REQUESTED, local_vars, pool, kdb, lib_vars>>

\* a SIGINT or SIGTERM while run is executing: the handler sets the flag,
\* or exits the process if the flag is set
PipelineSignal ==
    /\ pipe.pc \in {"between", "stage"}
    /\ SHUTDOWN_REQUESTED' = signal_handler(SHUTDOWN_REQUESTED).requested
    /\ pipe' = IF signal_handler(SHUTDOWN_REQUESTED).exit
               THEN [pipe EXCEPT !.pc = "exited"] ELSE pipe
    /\ UNCHANGED <<harvest_vars, local_vars, pool, kdb, lib_vars>>

NextPipeline ==
    \/ add_stage
    \/ PipelineRun
    \/ StageStart
    \/ StageFinish
    \/ PipelineReturn
    \/ PipelineSignal

SpecPipeline == InitPipeline /\ [][NextPipeline]_vars

(***************************************************************************)
(* DistilledKnowledgeDB (knowledge_distiller.py): the five level tables,   *)
(* the full-text index distilled_fts and the directory of full-text files. *)
(* Every operation runs in one _conn() transaction; files are written with *)
(* open() inside it.                                                       *)
(***************************************************************************)
MaxFtsRows == 3         \* rows of distilled_fts the operations are run up to

\* titles of the ingested records (the field that tells two versions apart)
Titles == {1, 2}

\* doc_id arguments: 0 is the empty doc_id of a metadata record
NoDocId == 0
DocIds == {1}

\* texts handed to distill_document: "" is no text; the others are shorter
\* than max_chars, where ExtractiveSummarizer.summarize returns the text
Texts == {"", "s"}

\* metadata records handed to the metadata-only operations
MetadataRecords == [doc_id : {NoDocId, 1}, titolo : Titles]

\* the batches handed to distill_batch_metadata
MetadataBatches ==
    {<<m>> : m \in MetadataRecords}
        \cup {<<m, n>> : m \in MetadataRecords, n \in MetadataRecords}

\* md5(f"{titolo}:{autore}:{anno}")[:16], the doc_id given to a record that
\* has none: a function of the record's fields
DerivedDocId(m) == 10 + m.titolo

MetadataDocId(m) == IF m.doc_id = NoDocId THEN DerivedDocId(m) ELSE m.doc_id

\* a table with PRIMARY KEY doc_id: INSERT OR IGNORE and INSERT OR REPLACE
HasRow(table, d) == \E r \in table : r.doc_id = d
InsertOrIgnore(table, row) ==
    IF HasRow(table, row.doc_id) THEN table ELSE table \cup {row}
InsertOrReplace(table, row) ==
    {r \in table : r.doc_id # row.doc_id} \cup {row}

\* distilled_fts is an fts5 table: it has no key but its rowid, and an
\* insert that names no rowid adds a row under either conflict clause
FtsInsert(fts, row) == Append(fts, row)

\* open(file_path, "wb").write(...): the file is created or overwritten
WriteFile(files, path, content) ==
    {f \in files : f.path # path} \cup {[path |-> path, content |-> content]}

EmptyDb == [l1 |-> {}, l2 |-> {}, l3 |-> {}, l4 |-> {}, l5 |-> {}, fts |-> <<>>]

NoDistillCall == [op |-> "none"]

\* the two statements distill_batch_metadata and distill_metadata_only
\* execute for one record
metadata_insert(db, m) ==
    LET d == MetadataDocId(m)
    IN  [db EXCEPT
            !.l1 = InsertOrIgnore(@, [doc_id |-> d, titolo |-> m.titolo]),
            !.fts = FtsInsert(@, [doc_id |-> d, titolo |-> m.titolo,
                                  abstract |-> ""])]

\* the loop of distill_batch_metadata over the first k records
RECURSIVE batch_insert(_, _, _)
batch_insert(db, batch, k) ==
    IF k = 0 THEN db
    ELSE metadata_insert(batch_insert(db, batch, k - 1), batch[k])

\* the statements of distill_document, in order: the k-th one applied to
\* the connection's working state and the files
DistillSteps == 7

distill_step(st, k, d, text, titolo, embedding, keep_fulltext) ==
    CASE k = 1 ->
            [st EXCEPT !.db.l1 = InsertOrReplace(@, [doc_id |-> d, titolo |-> titolo])]
      [] k = 2 ->
            IF embedding
            THEN [st EXCEPT !.db.l2 = InsertOrReplace(@, [doc_id |-> d])]
            ELSE st
      [] k = 3 ->
            IF text # ""
            THEN [st EXCEPT !.db.l3 = InsertOrReplace(@, [doc_id |-> d, abstract |-> text])]
            ELSE st
      [] k = 4 ->
            IF text # ""
            THEN [st EXCEPT !.db.l4 = InsertOrReplace(@, [doc_id |-> d, kg |-> text])]
            ELSE st
      [] k = 5 ->
            IF keep_fulltext /\ text # ""
            THEN [st EXCEPT !.files = WriteFile(@, d, text)]
            ELSE st
      [] k = 6 ->
            IF keep_fulltext /\ text # ""
            THEN [st EXCEPT !.db.l5 = InsertOrReplace(@, [doc_id |-> d, file_path |-> d])]
            ELSE st
      [] k = 7 ->
            [st EXCEPT !.db.fts = FtsInsert(@, [doc_id |-> d, titolo |-> titolo,
                                                abstract |-> text])]

RECURSIVE distill_steps(_, _, _, _, _, _, _)
distill_steps(st, k, d, text, titolo, embedding, keep_fulltext) ==
    IF k = 0 THEN st
    ELSE distill_step(distill_steps(st, k - 1, d, text, titolo, embedding, keep_fulltext),
                      k, d, text, titolo, embedding, keep_fulltext)

InitDistill ==
    /\ feed = NoFeeds /\ cli = [sources |-> {}, targets |-> {}] /\ tree = NoTree
    /\ store = {} /\ persisted = [s \in Sources |-> NoProgress]
    /\ cmdlog = NoLog /\ pc = "idle" /\ queue = <<>> /\ call = NoCall
    /\ prog = NoProgress /\ batch_count = 0 /\ apcontinue = ""
    /\ attempt = 0 /\ slept = <<>> /\ wait = 0 /\ resp = NoResp
    /\ sent = NoRequest /\ inserted = 0 /\ raising = FALSE /\ unsaved = 0
    /\ SHUTDOWN_REQUESTED = FALSE
    /\ codec = NoCodec /\ ftsidx = NoFts /\ kb = NoKb
    /\ scan = NoScan /\ scan_state = NoScanState
    /\ pipe = NoPipe /\ pool = NoPool
    /\ trk = NoTracker /\ bp = NoBatchProcessor
    /\ tiers = NoTiers /\ backend = NoBackend
    /\ kdb = [db |-> EmptyDb, files |-> {}, call |-> NoDistillCall]

\* distill_batch_metadata(batch) returns: the transaction is committed
DistillBatch ==
    /\ \E batch \in MetadataBatches :
          /\ Len(kdb.db.fts) + Len(batch) <= MaxFtsRows
          /\ kdb' = [kdb EXCEPT
                        !.db = batch_insert(@, batch, Len(batch)),
                        !.call = [op |-> "batch", batch |-> batch, ok |-> TRUE]]
    /\ UNCHANGED <<harvest_vars, SHUTDOWN_REQUESTED, local_vars, pipe, pool, lib_vars>>

\* distill_batch_metadata(batch) raises after k records: _conn rolls back
DistillBatchFails ==
    /\ \E batch \in MetadataBatches :
          /\ Len(kdb.db.fts) + Len(batch) <= MaxFtsRows
          /\ \E k \in 0..(Len(batch) - 1) :
                kdb' = [kdb EXCEPT
                           !.db = conn_rollback(@, batch_insert(@, batch, k)),
                           !.call = [op |-> "batch", batch |-> batch, ok |-> FALSE]]
    /\ UNCHANGED <<harvest_vars, SHUTDOWN_REQUESTED, local_vars, pipe, pool, lib_vars>>

\* distill_metadata_only(metadata) returns
DistillMetadataOnly ==
    /\ \E m \in MetadataRecords :
          /\ Len(kdb.db.fts) < MaxFtsRows
          /\ kdb' = [kdb EXCEPT
                        !.db = metadata_insert(@, m),
                        !.call = [op |-> "metadata", batch |-> <<m>>, ok |-> TRUE]]
    /\ UNCHANGED <<harvest_vars, SHUTDOWN_REQUESTED, local_vars, pipe, pool, lib_vars>>

\* distill_document(doc_id, text, metadata, embedding_vector, keep_fulltext)
\* returns
DistillDocument ==
    /\ \E d \in DocIds, text \in Texts, titolo \in Titles,
          embedding \in BOOLEAN, keep_fulltext \in BOOLEAN :
          /\ Len(kdb.db.fts) < MaxFtsRows
          /\ LET st == distill_steps([db |-> kdb.db, files |-> kdb.files],
                                     DistillSteps, d, text, titolo,
                                     embedding, keep_fulltext)
             IN  kdb' = [db |-> st.db, files |-> st.files,
                         call |-> [op |-> "document", doc_id |-> d, ok |-> TRUE]]
    /\ UNCHANGED <<harvest_vars, SHUTDOWN_REQUESTED, local_vars, pipe, pool, lib_vars>>

\* distill_document raises after k of its statements: _conn rolls the
\* connection back and the exception leaves the call
DistillDocumentFails ==
    /\ \E d \in DocIds, text \in Texts, titolo \in Titles,
          embedding \in BOOLEAN, keep_fulltext \in BOOLEAN :
          /\ Len(kdb.db.fts) < MaxFtsRows
          /\ \E k \in 0..(DistillSteps - 1) :
                LET st == distill_steps([db |-> kdb.db, files |-> kdb.files],
                                        k, d, text, titolo,
                                        embedding, keep_fulltext)
                IN  kdb' = [db |-> conn_rollback(kdb.db, st.db),
                            files |-> st.files,
                            call |-> [op |-> "document", doc_id |-> d, ok |-> FALSE]]
    /\ UNCHANGED <<harvest_vars, SHUTDOWN_REQUESTED, local_vars, pipe, pool, lib_vars>>

NextDistill ==
    \/ DistillBatch
    \/ DistillBatchFails
    \/ DistillMetadataOnly
    \/ DistillDocument
    \/ DistillDocumentFails

SpecDistill == InitDistill /\ [][NextDistill]_vars

(***************************************************************************)
(* Executor map (distributed_engine.py): LocalProcessPool.map and          *)
(* LocalThreadPool.map submit one future per item, then handle the futures *)
(* that as_completed yields.  as_completed copies the futures it is given  *)
(* when the loop starts; the workers run the futures on their own.         *)
(***************************************************************************)
MaxItems == 2           \* items a map is called with, at most
MaxRetries == 2         \* max_retries a map is called with, at most

\* results[idx] before the item's future is handled
NoResult == 0

\* ProgressTracker(total): BatchProgress(total=total, pending=total)
ProgressTracker(total) ==
    [total |-> total, completed |-> 0, failed |-> 0, running |-> 0,
     pending |-> total]

start_task(t) == [t EXCEPT !.running = @ + 1, !.pending = @ - 1]
complete_task(t) == [t EXCEPT !.running = @ - 1, !.completed = @ + 1]
fail_task(t) == [t EXCEPT !.running = @ - 1, !.failed = @ + 1]

\* executor.submit(fn, items[idx]); futures[future] = (idx, retry_count).
\* listed is whether the future is one of those as_completed iterates
submit(futures, idx, retry_count, listed) ==
    Append(futures, [idx |-> idx, retry_count |-> retry_count,
                     state |-> "pending", listed |-> listed,
                     handled |-> FALSE])

\* the first loop of map: one future per item, each counted as started
RECURSIVE submit_all(_, _)
submit_all(p, n) ==
    IF n = 0 THEN p
    ELSE LET q == submit_all(p, n - 1)
         IN  [q EXCEPT !.futures = submit(@, n, 0, TRUE),
                       !.tracker = start_task(@)]

\* a failed future is re-submitted if its retry_count is below max_retries
MayRetry(retry_count, retries_allowed) == retry_count < retries_allowed

\* the results in the reverse of the input order
RECURSIVE NotNone_reversed(_)
NotNone_reversed(results) ==
    IF results = <<>> THEN <<>>
    ELSE IF Head(results) = NoResult THEN NotNone_reversed(Tail(results))
    ELSE NotNone_reversed(Tail(results)) \o <<Head(results)>>

\* [r for r in results if r is not None]
RECURSIVE NotNone(_)
NotNone(results) ==
    IF results = <<>> THEN <<>>
    ELSE IF Head(results) = NoResult THEN NotNone(Tail(results))
    ELSE <<Head(results)>> \o NotNone(Tail(results))

\* the result of fn on an item: the item's number names it
FnResult(item) == 10 * item

NewPool ==
    [pc |-> "idle", items |-> <<>>, max_retries |-> 0, futures |-> <<>>,
     results |-> <<>>, tracker |-> ProgressTracker(0), returned |-> <<>>,
     yielded |-> <<>>, max_concurrency |-> 0]

InitPool ==
    /\ feed = NoFeeds /\ cli = [sources |-> {}, targets |-> {}] /\ tree = NoTree
    /\ store = {} /\ persisted = [s \in Sources |-> NoProgress]
    /\ cmdlog = NoLog /\ pc = "idle" /\ queue = <<>> /\ call = NoCall
    /\ prog = NoProgress /\ batch_count = 0 /\ apcontinue = ""
    /\ attempt = 0 /\ slept = <<>> /\ wait = 0 /\ resp = NoResp
    /\ sent = NoRequest /\ inserted = 0 /\ raising = FALSE /\ unsaved = 0
    /\ SHUTDOWN_REQUESTED = FALSE
    /\ codec = NoCodec /\ ftsidx = NoFts /\ kb = NoKb
    /\ scan = NoScan /\ scan_state = NoScanState
    /\ pipe = NoPipe /\ kdb = NoKdb
    /\ trk = NoTracker /\ bp = NoBatchProcessor
    /\ tiers = NoTiers /\ backend = NoBackend
    /\ pool = NewPool

\* map(fn, items, max_retries=r) is called: an empty list returns at once;
\* otherwise every item is submitted and the loop over as_completed starts
PoolMap ==
    /\ pool.pc = "idle"
    /\ \E n \in 0..MaxItems, r \in 0..MaxRetries :
          LET items == [i \in 1..n |-> i]
          IN  IF n = 0
              THEN pool' = [pool EXCEPT !.pc = "returned", !.max_retries = r]
              ELSE pool' = submit_all(
                              [pool EXCEPT !.pc = "collect",
                                           !.items = items,
                                           !.max_retries = r,
                                           !.results = [i \in 1..n |-> NoResult],
                                           !.tracker = ProgressTracker(n)],
                              n)
    /\ UNCHANGED <<harvest_vars, SHUTDOWN_REQUESTED, local_vars, pipe, kdb, lib_vars>>

\* a worker finishes a future: fn returned or raised
FutureDone ==
    /\ \E k \in 1..Len(pool.futures), outcome \in {"ok", "failed"} :
          /\ pool.futures[k].state = "pending"
          /\ pool' = [pool EXCEPT !.futures[k].state = outcome]
    /\ UNCHANGED <<harvest_vars, SHUTDOWN_REQUESTED, local_vars, pipe, kdb, lib_vars>>

\* as_completed yields a finished future of those it iterates, and the body
\* of the loop handles it
Collect ==
    /\ pool.pc = "collect"
    /\ \E k \in 1..Len(pool.futures) :
          LET f == pool.futures[k]
          IN  /\ f.listed /\ ~f.handled /\ f.state # "pending"
              /\ IF f.state = "ok"
                 THEN pool' = [pool EXCEPT
                                  !.futures[k].handled = TRUE,
                                  !.yielded = Append(@, f.idx),
                                  !.results[f.idx] = FnResult(pool.items[f.idx]),
                                  !.tracker = complete_task(@)]
                 ELSE IF MayRetry(f.retry_count, pool.max_retries)
                 THEN pool' = [pool EXCEPT
                                  !.futures = submit([@ EXCEPT ![k].handled = TRUE],
                                                     f.idx, f.retry_count + 1, FALSE),
                                  !.yielded = Append(@, f.idx),
                                  !.tracker = start_task(@)]
                 ELSE pool' = [pool EXCEPT
                                  !.futures[k].handled = TRUE,
                                  !.yielded = Append(@, f.idx),
                                  !.tracker = fail_task(@)]
    /\ UNCHANGED <<harvest_vars, SHUTDOWN_REQUESTED, local_vars, pipe, kdb, lib_vars>>

\* as_completed has yielded every future it iterates: map returns
PoolReturn ==
    /\ pool.pc = "collect"
    /\ \A k \in 1..Len(pool.futures) :
          pool.futures[k].listed => pool.futures[k].handled
    /\ pool' = [pool EXCEPT !.pc = "returned",
                            !.returned = NotNone(pool.results)]
    /\ UNCHANGED <<harvest_vars, SHUTDOWN_REQUESTED, local_vars, pipe, kdb, lib_vars>>

\* the coroutines of AsyncPool.map_async, one per item, before any of them
\* has entered the semaphore
RECURSIVE async_tasks(_)
async_tasks(n) ==
    IF n = 0 THEN <<>>
    ELSE Append(async_tasks(n - 1),
                [idx |-> n, retry_count |-> 0, state |-> "waiting",
                 listed |-> TRUE, handled |-> FALSE])

\* the coroutines that hold the semaphore
AsyncRunning(futures) ==
    Cardinality({k \in 1..Len(futures) : futures[k].state = "running"})

\* AsyncPool(max_concurrency).map_async(fn, items) is called and awaits
\* asyncio.gather over one _run coroutine per item
PoolMapAsync ==
    /\ pool.pc = "idle"
    /\ \E n \in 0..MaxItems, c \in 1..MaxItems :
          pool' = [pool EXCEPT !.pc = "gather",
                               !.items = [i \in 1..n |-> i],
                               !.max_concurrency = c,
                               !.results = [i \in 1..n |-> NoResult],
                               !.tracker = ProgressTracker(n),
                               !.futures = async_tasks(n)]
    /\ UNCHANGED <<harvest_vars, SHUTDOWN_REQUESTED, local_vars, pipe, kdb, lib_vars>>

\* a _run coroutine enters the semaphore and counts itself as started
AsyncStart ==
    /\ pool.pc = "gather"
    /\ AsyncRunning(pool.futures) < pool.max_concurrency
    /\ \E k \in 1..Len(pool.futures) :
          /\ pool.futures[k].state = "waiting"
          /\ pool' = [pool EXCEPT !.futures[k].state = "running",
                                  !.tracker = start_task(@)]
    /\ UNCHANGED <<harvest_vars, SHUTDOWN_REQUESTED, local_vars, pipe, kdb, lib_vars>>

\* fn(item) returns or raises inside _run, which records the result or the
\* failure itself and leaves the semaphore
AsyncDone ==
    /\ pool.pc = "gather"
    /\ \E k \in 1..Len(pool.futures), outcome \in {"ok", "failed"} :
          LET f == pool.futures[k]
          IN  /\ f.state = "running"
              /\ IF outcome = "ok"
                 THEN pool' = [pool EXCEPT
                                  !.futures[k].state = "ok",
                                  !.futures[k].handled = TRUE,
                                  !.yielded = Append(@, f.idx),
                                  !.results[f.idx] = FnResult(pool.items[f.idx]),
                                  !.tracker = complete_task(@)]
                 ELSE pool' = [pool EXCEPT
                                  !.futures[k].state = "failed",
                                  !.futures[k].handled = TRUE,
                                  !.yielded = Append(@, f.idx),
                                  !.tracker = fail_task(@)]
    /\ UNCHANGED <<harvest_vars, SHUTDOWN_REQUESTED, local_vars, pipe, kdb, lib_vars>>

\* every coroutine has finished: gather returns and so does map_async
AsyncReturn ==
    /\ pool.pc = "gather"
    /\ \A k \in 1..Len(pool.futures) : pool.futures[k].handled
    /\ pool' = [pool EXCEPT !.pc = "returned",
                            !.returned = NotNone(pool.results)]
    /\ UNCHANGED <<harvest_vars, SHUTDOWN_REQUESTED, local_vars, pipe, kdb, lib_vars>>

NextPool ==
    \/ PoolMap
    \/ FutureDone
    \/ Collect
    \/ PoolReturn
    \/ PoolMapAsync
    \/ AsyncStart
    \/ AsyncDone
    \/ AsyncReturn

SpecPool == InitPool /\ [][NextPool]_vars

(***************************************************************************)
(* ProgressTracker (distributed_engine.py) called by several threads.      *)
(* "x += 1" on an attribute is a read followed by a write, and a thread    *)
(* may be pre-empted between the two; each method runs under self._lock.   *)
(***************************************************************************)
MaxThreads == 2         \* threads that call one tracker
MaxCalls == 3           \* calls of the tracker's methods, all threads together

NoThread == 0
Threads == 1..MaxThreads

\* the two counters each method updates, in the order of its statements,
\* and what it adds to each
TrackerUpdates(op) ==
    CASE op = "start" -> <<[field |-> "running", add |-> 1],
                           [field |-> "pending", add |-> -1]>>
      [] op = "complete" -> <<[field |-> "running", add |-> -1],
                              [field |-> "completed", add |-> 1]>>
      [] op = "fail" -> <<[field |-> "running", add |-> -1],
                          [field |-> "failed", add |-> 1]>>

\* "with self._lock": a thread enters when no thread holds the lock
LockFree_unlocked(lock) == TRUE

LockFree(lock) == lock = NoThread

IdleThread == [pc |-> "idle", op |-> "none", step |-> 0, read |-> 0]

\* the counters a tracker with no lost update shows after the calls made
ExpectedProgress(total, done) ==
    [total |-> total,
     completed |-> done.complete,
     failed |-> done.fail,
     running |-> done.start - done.complete - done.fail,
     pending |-> total - done.start]

InitTracker ==
    /\ feed = NoFeeds /\ cli = [sources |-> {}, targets |-> {}] /\ tree = NoTree
    /\ store = {} /\ persisted = [s \in Sources |-> NoProgress]
    /\ cmdlog = NoLog /\ pc = "idle" /\ queue = <<>> /\ call = NoCall
    /\ prog = NoProgress /\ batch_count = 0 /\ apcontinue = ""
    /\ attempt = 0 /\ slept = <<>> /\ wait = 0 /\ resp = NoResp
    /\ sent = NoRequest /\ inserted = 0 /\ raising = FALSE /\ unsaved = 0
    /\ SHUTDOWN_REQUESTED = FALSE
    /\ codec = NoCodec /\ ftsidx = NoFts /\ kb = NoKb
    /\ scan = NoScan /\ scan_state = NoScanState
    /\ pipe = NoPipe /\ pool = NoPool /\ kdb = NoKdb
    /\ bp = NoBatchProcessor /\ tiers = NoTiers /\ backend = NoBackend
    /\ trk = [lock |-> NoThread,
              progress |-> ProgressTracker(MaxCalls),
              th |-> [t \in Threads |-> IdleThread],
              done |-> [start |-> 0, complete |-> 0, fail |-> 0],
              emitted |-> <<>>,
              waited |-> FALSE]

\* a thread calls start_task, complete_task or fail_task and reaches the
\* "with self._lock" of the method
TrackerCall ==
    /\ \E t \in Threads, op \in {"start", "complete", "fail"} :
          /\ trk.th[t].pc = "idle"
          /\ trk.done.start + trk.done.complete + trk.done.fail
                + Cardinality({u \in Threads : trk.th[u].pc # "idle"}) < MaxCalls
          /\ trk' = [trk EXCEPT !.th[t] = [pc |-> "lock", op |-> op,
                                           step |-> 1, read |-> 0],
                                !.waited = @ \/ trk.lock # NoThread]
    /\ UNCHANGED <<harvest_vars, SHUTDOWN_REQUESTED, local_vars, pipe, pool, kdb,
                   bp, tiers, backend, aux_vars>>

\* the thread acquires the lock
TrackerAcquire ==
    /\ \E t \in Threads :
          /\ trk.th[t].pc = "lock"
          /\ LockFree(trk.lock)
          /\ trk' = [trk EXCEPT !.lock = t, !.th[t].pc = "read"]
    /\ UNCHANGED <<harvest_vars, SHUTDOWN_REQUESTED, local_vars, pipe, pool, kdb,
                   bp, tiers, backend, aux_vars>>

\* the thread reads the counter of its next update
TrackerRead ==
    /\ \E t \in Threads :
          /\ trk.th[t].pc = "read"
          /\ LET u == TrackerUpdates(trk.th[t].op)[trk.th[t].step]
             IN  trk' = [trk EXCEPT !.th[t].read = trk.progress[u.field],
                                    !.th[t].pc = "write"]
    /\ UNCHANGED <<harvest_vars, SHUTDOWN_REQUESTED, local_vars, pipe, pool, kdb,
                   bp, tiers, backend, aux_vars>>

\* the thread writes the counter back, changed by one
TrackerWrite ==
    /\ \E t \in Threads :
          /\ trk.th[t].pc = "write"
          /\ LET ups == TrackerUpdates(trk.th[t].op)
                 u == ups[trk.th[t].step]
             IN  trk' = [trk EXCEPT
                            !.progress[u.field] = trk.th[t].read + u.add,
                            !.th[t].step = @ + 1,
                            !.th[t].pc = IF trk.th[t].step < Len(ups)
                                         THEN "read" ELSE "notify"]
    /\ UNCHANGED <<harvest_vars, SHUTDOWN_REQUESTED, local_vars, pipe, pool, kdb,
                   bp, tiers, backend, aux_vars>>

\* _notify: the callback is handed the progress; then the lock is released
\* and the method returns
TrackerNotify ==
    /\ \E t \in Threads :
          /\ trk.th[t].pc = "notify"
          /\ trk' = [trk EXCEPT
                        !.emitted = Append(@, trk.progress),
                        !.done[trk.th[t].op] = @ + 1,
                        !.lock = IF @ = t THEN NoThread ELSE @,
                        !.th[t] = IdleThread]
    /\ UNCHANGED <<harvest_vars, SHUTDOWN_REQUESTED, local_vars, pipe, pool, kdb,
                   bp, tiers, backend, aux_vars>>

NextTracker ==
    \/ TrackerCall
    \/ TrackerAcquire
    \/ TrackerRead
    \/ TrackerWrite
    \/ TrackerNotify

SpecTracker == InitTracker /\ [][NextTracker]_vars

(***************************************************************************)
(* BatchProcessor (distributed_engine.py): a producer thread calls feed, a *)
(* consumer thread calls process_all, any thread may call stop.  The       *)
(* buffer is a queue.Queue(maxsize=max_queue_size).                        *)
(***************************************************************************)
MaxQueueSize == 2       \* max_queue_size of the processor, at most
MaxFeeds == 3           \* items the producer feeds, at most
MaxProcessAll == 2      \* calls of process_all, at most

\* queue.Queue.put(item, timeout): the item enters if the queue holds fewer
\* than maxsize items, else the call waits and raises Full at the timeout
QueueHasRoom_unbounded(q, maxsize) == TRUE

QueueHasRoom(q, maxsize) == Len(q) < maxsize

\* items[i:i+batch_size] for i in range(0, len(items), batch_size)
RECURSIVE Batches(_, _)
Batches(items, batch_size) ==
    IF Len(items) <= batch_size THEN <<items>>
    ELSE <<SubSeq(items, 1, batch_size)>>
            \o Batches(SubSeq(items, batch_size + 1, Len(items)), batch_size)

IdleProducer == [pc |-> "idle", item |-> 0, waited |-> FALSE]
IdleConsumer == [pc |-> "idle", items |-> <<>>]

InitBatch ==
    /\ feed = NoFeeds /\ cli = [sources |-> {}, targets |-> {}] /\ tree = NoTree
    /\ store = {} /\ persisted = [s \in Sources |-> NoProgress]
    /\ cmdlog = NoLog /\ pc = "idle" /\ queue = <<>> /\ call = NoCall
    /\ prog = NoProgress /\ batch_count = 0 /\ apcontinue = ""
    /\ attempt = 0 /\ slept = <<>> /\ wait = 0 /\ resp = NoResp
    /\ sent = NoRequest /\ inserted = 0 /\ raising = FALSE /\ unsaved = 0
    /\ SHUTDOWN_REQUESTED = FALSE
    /\ codec = NoCodec /\ ftsidx = NoFts /\ kb = NoKb
    /\ scan = NoScan /\ scan_state = NoScanState
    /\ pipe = NoPipe /\ pool = NoPool /\ kdb = NoKdb
    /\ trk = NoTracker /\ tiers = NoTiers /\ backend = NoBackend
    /\ \E m \in 1..MaxQueueSize, b \in 1..MaxQueueSize :
          bp = [max_queue_size |-> m, batch_size |-> b, q |-> <<>>,
                stop |-> FALSE, prod |-> IdleProducer, fed |-> 0,
                accepted |-> {}, cons |-> IdleConsumer, calls |-> 0,
                processed |-> <<>>]

\* the producer calls feed(item)
FeedCall ==
    /\ bp.prod.pc = "idle"
    /\ bp.fed < MaxFeeds
    /\ bp' = [bp EXCEPT !.fed = @ + 1,
                        !.prod = [pc |-> "feed", item |-> bp.fed + 1,
                                  waited |-> FALSE]]
    /\ UNCHANGED <<harvest_vars, SHUTDOWN_REQUESTED, local_vars, pipe, pool, kdb,
                   trk, tiers, backend, aux_vars>>

\* the stop event is not set and put succeeds: feed returns
FeedPut ==
    /\ bp.prod.pc = "feed"
    /\ ~bp.stop
    /\ QueueHasRoom(bp.q, bp.max_queue_size)
    /\ bp' = [bp EXCEPT !.q = Append(@, bp.prod.item),
                        !.accepted = @ \cup {bp.prod.item},
                        !.prod = [IdleProducer EXCEPT !.waited = bp.prod.waited]]
    /\ UNCHANGED <<harvest_vars, SHUTDOWN_REQUESTED, local_vars, pipe, pool, kdb,
                   trk, tiers, backend, aux_vars>>

\* the stop event is not set and put raises Full after its timeout: the
\* loop of feed goes round again
FeedFull ==
    /\ bp.prod.pc = "feed"
    /\ ~bp.stop
    /\ ~QueueHasRoom(bp.q, bp.max_queue_size)
    /\ bp' = [bp EXCEPT !.prod.waited = TRUE]
    /\ UNCHANGED <<harvest_vars, SHUTDOWN_REQUESTED, local_vars, pipe, pool, kdb,
                   trk, tiers, backend, aux_vars>>

\* the stop event is set when the loop of feed tests it: feed returns
\* without having put the item
FeedStopped ==
    /\ bp.prod.pc = "feed"
    /\ bp.stop
    /\ bp' = [bp EXCEPT !.accepted = @ \cup {bp.prod.item},
                        !.prod = IdleProducer]
    /\ UNCHANGED <<harvest_vars, SHUTDOWN_REQUESTED, local_vars, pipe, pool, kdb,
                   trk, tiers, backend, aux_vars>>

\* stop() is called
BatchStop ==
    /\ ~bp.stop
    /\ bp' = [bp EXCEPT !.stop = TRUE]
    /\ UNCHANGED <<harvest_vars, SHUTDOWN_REQUESTED, local_vars, pipe, pool, kdb,
                   trk, tiers, backend, aux_vars>>

\* the consumer calls process_all
ProcessAllCall ==
    /\ bp.cons.pc = "idle"
    /\ bp.calls < MaxProcessAll
    /\ bp' = [bp EXCEPT !.calls = @ + 1,
                        !.cons = [pc |-> "drain", items |-> <<>>]]
    /\ UNCHANGED <<harvest_vars, SHUTDOWN_REQUESTED, local_vars, pipe, pool, kdb,
                   trk, tiers, backend, aux_vars>>

\* get_nowait returns an item
DrainGet ==
    /\ bp.cons.pc = "drain"
    /\ bp.q # <<>>
    /\ bp' = [bp EXCEPT !.q = Tail(@),
                        !.cons.items = Append(@, Head(bp.q))]
    /\ UNCHANGED <<harvest_vars, SHUTDOWN_REQUESTED, local_vars, pipe, pool, kdb,
                   trk, tiers, backend, aux_vars>>

\* get_nowait raises Empty: the drained items are cut into batches and
\* process_fn is called on each batch in turn; process_all returns
ProcessBatches ==
    /\ bp.cons.pc = "drain"
    /\ bp.q = <<>>
    /\ bp' = [bp EXCEPT
                 !.processed = IF bp.cons.items = <<>> THEN @
                               ELSE @ \o Batches(bp.cons.items, bp.batch_size),
                 !.cons = IdleConsumer]
    /\ UNCHANGED <<harvest_vars, SHUTDOWN_REQUESTED, local_vars, pipe, pool, kdb,
                   trk, tiers, backend, aux_vars>>

NextBatch ==
    \/ FeedCall
    \/ FeedPut
    \/ FeedFull
    \/ FeedStopped
    \/ BatchStop
    \/ ProcessAllCall
    \/ DrainGet
    \/ ProcessBatches

SpecBatch == InitBatch /\ [][NextBatch]_vars

(***************************************************************************)
(* TieredStorage over LocalStorage backends (cloud_storage.py).  tiers     *)
(* holds the objects of the three backends, the age of the hot objects and *)
(* the access log; backend holds the outcome of the last operation as the  *)
(* caller sees it.                                                         *)
(***************************************************************************)
MaxAge == 2             \* days a hot object is aged up to
MaxReads == 3           \* reads of one key, at most

\* the number of reads from which a key counts as frequently read
PromoteReads == 3

\* StorageConfig.max_retries and StorageConfig.retry_delay
storage_max_retries == 3
storage_retry_delay == 1

Keys == {1}
Data == {1, 2}
NoData == 0
TierNames == {"hot", "warm", "cold"}

\* a backend with no object
EmptyBackend == [k \in Keys |-> NoData]

\* no operation has been made on the storage
NoOperation == [op |-> "none"]

\* LocalStorage.exists, LocalStorage.get, LocalStorage.put, LocalStorage.delete
exists(objects, key) == objects[key] # NoData
put(objects, key, data) == [objects EXCEPT ![key] = data]
delete(objects, key) == [objects EXCEPT ![key] = NoData]

\* the outcome of an operation that returned data, and of one that raised:
\* the backends call the filesystem once and let its exception through
Returned(op, key, data) ==
    [op |-> op, key |-> key, raised |-> FALSE, data |-> data,
     attempts |-> 1, slept |-> <<>>]
Raised(op, key) ==
    [op |-> op, key |-> key, raised |-> TRUE, data |-> NoData,
     attempts |-> 1, slept |-> <<>>]

\* TieredStorage.get: a warm copy is put into hot if the key counts as
\* frequently read
PromoteToHot(count) == count >= PromoteReads

\* TieredStorage.get: a cold copy is put into warm whenever there is a warm
\* backend
PromoteToWarm(count, has_warm) == has_warm

\* TieredStorage.evict_cold: the test an object of hot is moved on
EvictDue_any_reads(age, max_age_days, count) == age > max_age_days

EvictDue(age, max_age_days, count) ==
    age > max_age_days /\ count < PromoteReads

\* TieredStorage.put: the backend the tier argument selects
PutTier(tier, has_warm, has_cold) ==
    IF tier = "warm" /\ has_warm THEN "warm"
    ELSE IF tier = "cold" /\ has_cold THEN "cold"
    ELSE "hot"

InitStorage ==
    /\ feed = NoFeeds /\ cli = [sources |-> {}, targets |-> {}] /\ tree = NoTree
    /\ store = {} /\ persisted = [s \in Sources |-> NoProgress]
    /\ cmdlog = NoLog /\ pc = "idle" /\ queue = <<>> /\ call = NoCall
    /\ prog = NoProgress /\ batch_count = 0 /\ apcontinue = ""
    /\ attempt = 0 /\ slept = <<>> /\ wait = 0 /\ resp = NoResp
    /\ sent = NoRequest /\ inserted = 0 /\ raising = FALSE /\ unsaved = 0
    /\ SHUTDOWN_REQUESTED = FALSE
    /\ codec = NoCodec /\ ftsidx = NoFts /\ kb = NoKb
    /\ scan = NoScan /\ scan_state = NoScanState
    /\ pipe = NoPipe /\ pool = NoPool /\ kdb = NoKdb
    /\ trk = NoTracker /\ bp = NoBatchProcessor
    /\ \E w \in BOOLEAN, c \in BOOLEAN :
          tiers = [hot |-> EmptyBackend, warm |-> EmptyBackend,
                   cold |-> EmptyBackend,
                   age |-> [k \in Keys |-> 0],
                   latest |-> [k \in Keys |-> NoData],
                   access_log |-> [k \in Keys |-> 0],
                   has_warm |-> w, has_cold |-> c]
    /\ backend = NoOperation

\* TieredStorage.get(key)
TierGet ==
    /\ \E key \in Keys :
          /\ tiers.access_log[key] < MaxReads
          /\ LET count == tiers.access_log[key] + 1
                 logged == [tiers EXCEPT !.access_log[key] = count]
             IN  IF exists(tiers.hot, key)
                 THEN /\ tiers' = logged
                      /\ backend' = Returned("get", key, tiers.hot[key])
                 ELSE IF tiers.has_warm /\ exists(tiers.warm, key)
                 THEN /\ tiers' = IF PromoteToHot(count)
                                  THEN [logged EXCEPT
                                           !.hot = put(@, key, tiers.warm[key]),
                                           !.age[key] = 0]
                                  ELSE logged
                      /\ backend' = Returned("get", key, tiers.warm[key])
                 ELSE IF tiers.has_cold /\ exists(tiers.cold, key)
                 THEN /\ tiers' = IF PromoteToWarm(count, tiers.has_warm)
                                  THEN [logged EXCEPT
                                           !.warm = put(@, key, tiers.cold[key])]
                                  ELSE logged
                      /\ backend' = Returned("get", key, tiers.cold[key])
                 ELSE /\ tiers' = logged
                      /\ backend' = Raised("get", key)
    /\ UNCHANGED <<harvest_vars, SHUTDOWN_REQUESTED, local_vars, pipe, pool, kdb,
                   trk, bp, aux_vars>>

\* TieredStorage.put(key, data, tier): the object is written to the backend
\* of the tier, the other tiers are not touched.  latest is the history of
\* the calls: the bytes of the last put of each key
TierPut ==
    /\ \E key \in Keys, data \in Data, tier \in TierNames :
          LET to == PutTier(tier, tiers.has_warm, tiers.has_cold)
          IN  /\ tiers' = [tiers EXCEPT
                              ![to] = put(@, key, data),
                              !.age[key] = IF to = "hot" THEN 0 ELSE @,
                              !.latest[key] = data]
              /\ backend' = [op |-> "put", raised |-> FALSE]
    /\ UNCHANGED <<harvest_vars, SHUTDOWN_REQUESTED, local_vars, pipe, pool, kdb,
                   trk, bp, aux_vars>>

\* a day passes: every object of hot is a day older
TierDay ==
    /\ \E k \in Keys : exists(tiers.hot, k) /\ tiers.age[k] < MaxAge
    /\ tiers' = [tiers EXCEPT
                    !.age = [k \in Keys |->
                                IF exists(tiers.hot, k) /\ tiers.age[k] < MaxAge
                                THEN tiers.age[k] + 1 ELSE tiers.age[k]]]
    /\ UNCHANGED backend
    /\ UNCHANGED <<harvest_vars, SHUTDOWN_REQUESTED, local_vars, pipe, pool, kdb,
                   trk, bp, aux_vars>>

\* TieredStorage.evict_cold(max_age_days): without a warm backend nothing is
\* done; else every object of hot that is due is put into warm and deleted
\* from hot
EvictCold ==
    /\ \E max_age_days \in 0..(MaxAge - 1) :
          LET due == {k \in Keys :
                         /\ tiers.has_warm
                         /\ exists(tiers.hot, k)
                         /\ EvictDue(tiers.age[k], max_age_days,
                                     tiers.access_log[k])}
          IN  /\ tiers' = [tiers EXCEPT
                              !.warm = [k \in Keys |->
                                           IF k \in due THEN tiers.hot[k] ELSE @[k]],
                              !.hot = [k \in Keys |->
                                          IF k \in due THEN NoData ELSE @[k]],
                              !.age = [k \in Keys |->
                                          IF k \in due THEN 0 ELSE @[k]]]
              /\ backend' = [op |-> "evict_cold", max_age_days |-> max_age_days,
                             raised |-> FALSE]
    /\ UNCHANGED <<harvest_vars, SHUTDOWN_REQUESTED, local_vars, pipe, pool, kdb,
                   trk, bp, aux_vars>>

\* LocalStorage.get(key) called on the hot backend itself: the bytes of the
\* file, or FileNotFoundError at once if there is no such file
BackendGet ==
    /\ \E key \in Keys :
          backend' = IF exists(tiers.hot, key)
                     THEN Returned("backend_get", key, tiers.hot[key])
                     ELSE Raised("backend_get", key)
    /\ UNCHANGED tiers
    /\ UNCHANGED <<harvest_vars, SHUTDOWN_REQUESTED, local_vars, pipe, pool, kdb,
                   trk, bp, aux_vars>>

NextStorage ==
    \/ BackendGet
    \/ TierGet
    \/ TierPut
    \/ TierDay
    \/ EvictCold

SpecStorage == InitStorage /\ [][NextStorage]_vars

(***************************************************************************)
(* Properties.                                                             *)
(***************************************************************************)
\* C8: after each inserted batch, total_inserted grows by the number of
\* records of the batch that were actually inserted into the store (records
\* whose doc_id was already stored are not counted), and total_fetched
\* grows by the size of the batch.
C8_InsertedCountsNewRows ==
    /\ [][Insert => inserted' = Cardinality(store' \ store)]_vars
    /\ [][Update
             => /\ prog'.total_inserted = prog.total_inserted + inserted
                /\ prog'.total_fetched = prog.total_fetched + Len(resp.batch)]_vars

\* C9: in every progress state, in memory and as persisted,
\* total_inserted <= total_fetched.
C9_InsertedAtMostFetched ==
    /\ prog # NoProgress => prog.total_inserted <= prog.total_fetched
    /\ \A s \in Sources :
          persisted[s] # NoProgress =>
              persisted[s].total_inserted <= persisted[s].total_fetched

\* a harvest is running on counters that a save has already persisted
C9_Witness ==
    /\ prog # NoProgress /\ prog.total_fetched > 0 /\ prog.total_inserted > 0
    /\ persisted[prog.source] # NoProgress
    /\ persisted[prog.source].total_inserted > 0

\* C10: a failing adapter call is attempted 5 times for a batch, with delays
\* of 2, 4, 8, 16 and 32 seconds after the successive failed attempts: when
\* the fetch of a batch is given up, the fifth attempt has failed and those
\* five delays have been slept.
C10_FiveAttemptsWithBackoff ==
    (pc = "finally" /\ ~raising /\ sent # NoRequest /\ ~resp.ok)
        => attempt + 1 = max_retries /\ slept = <<2, 4, 8, 16, 32>>

(***************************************************************************)
(* An uninterrupted harvest of a feed from its first page: it takes pages  *)
(* until the target is reached or the feed ends.                           *)
(***************************************************************************)
UninterruptedPages(pages, target) ==
    IF \E k \in 0..Len(pages) : SumLen(pages, k) >= target
    THEN CHOOSE k \in 0..Len(pages) :
            /\ SumLen(pages, k) >= target
            /\ \A j \in 0..Len(pages) : SumLen(pages, j) >= target => k <= j
    ELSE Len(pages)

RowsOfPages(pages, k) == UNION {Range(pages[i]) : i \in 1..k}

UninterruptedRows(pages, target) ==
    RowsOfPages(pages, UninterruptedPages(pages, target))

\* C1: the harvester is killed between two batches and resume is called:
\* the rows stored in the end are those of an uninterrupted harvest of the
\* same source and target.  (The harvest is the first command, the resume
\* the second, and no call of the resume fails.)
C1_ResumeAfterKill ==
    (/\ pc = "idle"
     /\ cmdlog.n = 2 /\ cmdlog.prev = "killed_between"
     /\ cmdlog.cmd = "resume" /\ cmdlog.end = "clean")
        => \A s \in {"openalex", "crossref"} :
              persisted[s] # NoProgress =>
                  store = UninterruptedRows(feed[s], persisted[s].target)

\* the pages a persisted cursor accounts for: those before the page it
\* names; the empty cursor of OpenAlex and Crossref is written after the
\* last page, that of Wikipedia also before the first
CoveredPages(s, cursor) ==
    IF cursor \in Range(Tok) THEN PageOf(cursor) - 1
    ELSE IF s \in {"openalex", "crossref"} THEN Len(feed[s])
    ELSE 0

\* C2: a save of the progress comes after the commit of every batch the
\* saved cursor accounts for: at any time, hence at any crash, every page
\* before the persisted cursor is in the store, so that a harvest resumed
\* from the persisted cursor may fetch a stored batch again but skips none.
C2_SavedProgressIsCommitted ==
    \A s \in Sources :
        persisted[s] # NoProgress =>
            /\ CoveredPages(s, persisted[s].cursor) <= Len(feed[s])
            /\ RowsOfPages(feed[s], CoveredPages(s, persisted[s].cursor)) \subseteq store

\* after a kill, a harvest resumed from the persisted cursor has fetched
\* again a batch that is already stored
C2_Witness ==
    /\ pc = "insert" /\ call.resume /\ batch_count = 0
    /\ cmdlog.prev = "killed_between"
    /\ sent = persisted[SourceOf(call)].cursor
    /\ Range(resp.batch) \subseteq store

C4_ResumeOrReinitialize ==
    [][Begin =>
        LET loaded == persisted[SourceOf(call)] IN
        /\ IF call.resume /\ loaded # NoProgress
                          /\ loaded.status \in {"running", "paused"}
           THEN /\ prog'.cursor = loaded.cursor
                /\ prog'.offset = loaded.offset
                /\ prog'.total_fetched = loaded.total_fetched
                /\ prog'.total_inserted = loaded.total_inserted
                /\ prog'.total_errors = loaded.total_errors
           ELSE /\ prog'.cursor = IF call.fn = "wikipedia" THEN "" ELSE "*"
                /\ prog'.offset = 0
                /\ prog'.total_fetched = 0
                /\ prog'.total_inserted = 0
                /\ prog'.total_errors = 0
        /\ prog'.status = "running"
        /\ persisted'[SourceOf(call)] = prog']_vars

\* a harvest has begun on the counters of a row that a killed process had
\* left with status running
C4_Witness ==
    /\ pc = "loop" /\ batch_count = 0 /\ unsaved = 0
    /\ call.fn = "openalex" /\ call.resume
    /\ cmdlog.prev = "killed_between"
    /\ prog.total_fetched > 0
    /\ prog.cursor = "c06"

\* C5: the cursor a request carries is the cursor of the progress, which is
\* the one received with the previous batch or the one loaded from the
\* table: it is never replaced by another value.
C5_CursorSentVerbatim ==
    (sent # NoRequest /\ prog # NoProgress) => sent = prog.cursor

\* C6 as claimed: whenever a harvest call exits, the persisted status is
\* completed if total_fetched >= target and paused otherwise.
C6_ExitStatusByTarget ==
    [][Finally =>
        persisted'[SourceOf(call)].status =
            IF prog.total_fetched >= RunTarget(call) THEN "completed" ELSE "paused"]_vars

\* C6 as amended: whenever a harvest call exits, the persisted status is
\* completed if total_fetched >= target and no shutdown has been
\* requested, and paused otherwise.
C6_ExitStatusByTargetAndShutdown ==
    [][Finally =>
        persisted'[SourceOf(call)].status =
            IF prog.total_fetched >= RunTarget(call) /\ ~SHUTDOWN_REQUESTED
            THEN "completed" ELSE "paused"]_vars

\* a harvest interrupted when its target was reached has exited as paused
C6_Witness ==
    /\ pc = "idle" /\ cmdlog.cmd = "harvest" /\ cmdlog.end = "interrupted"
    /\ persisted["openalex"] # NoProgress
    /\ persisted["openalex"].status = "paused"
    /\ persisted["openalex"].total_fetched >= persisted["openalex"].target

\* C7, scenario S4: OpenAlex with three pages of 200 and target 600.  The
\* first command is a harvest, interrupted (SIGINT) when two pages are
\* stored: the persisted progress is paused, at the cursor of page 3, with
\* total_fetched = 400.  The resume that follows ends with total_fetched =
\* 600, status completed and 600 doc_ids in the store.
S4World == cli.targets = {S4Target}

C7_ScenarioS4 ==
    /\ (/\ S4World /\ pc = "idle"
        /\ cmdlog.n = 1 /\ cmdlog.cmd = "harvest" /\ cmdlog.end = "interrupted"
        /\ Cardinality(store) = 400)
          => /\ persisted["openalex"] # NoProgress
             /\ persisted["openalex"].status = "paused"
             /\ persisted["openalex"].cursor = Tok[3]
             /\ persisted["openalex"].total_fetched = 400
    /\ (/\ S4World /\ pc = "idle"
        /\ cmdlog.n = 2 /\ cmdlog.prev = "interrupted"
        /\ cmdlog.cmd = "resume" /\ cmdlog.end = "clean"
        /\ persisted["openalex"] # NoProgress)
          => /\ persisted["openalex"].status = "completed"
             /\ persisted["openalex"].total_fetched = 600
             /\ Cardinality(store) = 600

\* the resume of the scenario has completed the harvest
C7_Witness ==
    /\ S4World /\ pc = "idle"
    /\ cmdlog.n = 2 /\ cmdlog.prev = "interrupted"
    /\ cmdlog.cmd = "resume" /\ cmdlog.end = "clean"
    /\ persisted["openalex"] # NoProgress
    /\ persisted["openalex"].status = "completed"
    /\ persisted["openalex"].total_inserted = 600
    /\ Cardinality(store) = 600

\* C11: a network or disk error that lasts until the retries are used up
\* is counted (the error counter of the source grows by one when the fetch
\* of the batch is given up) and is never fatal: no exception leaves the
\* harvest call.
C11_ErrorsCountedNeverFatal ==
    [][/\ ((FetchReturns \/ FetchRaises) /\ pc' = "finally" /\ ~resp'.ok)
            => prog'.total_errors = prog.total_errors + 1
       /\ InsertFails => ~raising']_vars

\* C12: if the store write of a batch fails, no row of the batch remains
\* stored and no counter advances for the batch, neither in memory nor in
\* the row the finally block saves.
C12_FailedWriteRolledBack ==
    [][/\ InsertFails => store' = store /\ prog' = prog
       /\ (Finally /\ raising)
            => /\ persisted'[SourceOf(call)].total_fetched = prog.total_fetched
               /\ persisted'[SourceOf(call)].total_inserted = prog.total_inserted
               /\ store' = store]_vars

\* the write of a batch of new records has failed after earlier batches
\* were stored
C12_Witness ==
    /\ pc = "finally" /\ raising /\ ~SHUTDOWN_REQUESTED
    /\ Len(resp.batch) > 1
    /\ Range(resp.batch) \cap store = {}
    /\ store # {}
    /\ prog.total_fetched > 0

\* C13: after a harvest has failed (a fetch given up in failure, or a store
\* write that failed), the persisted progress of the source has status
\* error.
C13_FailedHarvestStatusError ==
    [][(/\ Finally
        /\ (raising /\ ~SHUTDOWN_REQUESTED) \/ (sent # NoRequest /\ ~resp.ok))
            => persisted'[SourceOf(call)].status = "error"]_vars

\* C14: once the cancellation flag is set, the harvester starts no batch
\* fetch other than the one in progress, and the local scanner processes no
\* file other than the one in progress.
C14_NothingStartedAfterCancel ==
    [][SHUTDOWN_REQUESTED =>
          /\ pc' = "fetch" => pc = "fetch"
          /\ pc' = "scan_file" => pc = "scan_file"]_vars

\* a local scan has stopped on the flag with files of the walk left
C14_Witness ==
    /\ pc = "scan_end" /\ SHUTDOWN_REQUESTED
    /\ scan.i <= Len(tree)
    /\ scan.files_scanned > 0

\* C16: the first SIGINT delivered to the harvest process only requests a
\* clean stop: it sets the flag and touches nothing else, the loop stops at
\* its next check and the finally block persists the progress as paused.
\* A second SIGINT aborts the process: an exit is raised where the process
\* is, and the process ends.
C16_FirstStopsSecondAborts ==
    [][/\ ~SHUTDOWN_REQUESTED => ~SigintAgain
       /\ Sigint => /\ SHUTDOWN_REQUESTED' /\ pc' = pc /\ prog' = prog
                    /\ store' = store /\ persisted' = persisted
       /\ (LoopCheck /\ SHUTDOWN_REQUESTED) => pc' = "finally"
       /\ (Finally /\ SHUTDOWN_REQUESTED)
             => persisted'[SourceOf(call)] = [prog EXCEPT !.status = "paused"]
       /\ SigintAgain => SHUTDOWN_REQUESTED /\ (raising' \/ pc' = "idle")
       /\ (Finally /\ raising) => pc' = "idle"]_vars

\* after a second SIGINT in the loop of a harvest, the process has ended
\* and the progress was persisted as paused on the way out
C16_Witness ==
    /\ pc = "idle" /\ cmdlog.cmd = "harvest" /\ cmdlog.end = "other"
    /\ persisted["openalex"] # NoProgress
    /\ persisted["openalex"].status = "paused"
    /\ persisted["openalex"].total_fetched > 0
    /\ persisted["openalex"].total_fetched < persisted["openalex"].target
    /\ persisted["openalex"].total_errors = 0
    /\ persisted["openalex"].cursor # ""

\* C15: when cancellation is requested while a pipeline is running, the
\* stages that have not started are not executed: no stage starts once the
\* flag is set.
C15_CancelShortCircuitsStages ==
    [][(SHUTDOWN_REQUESTED /\ pipe.pc = "between") => pipe'.pc # "stage"]_vars

\* C17: distill_batch_metadata is idempotent on doc_id: inserting again the
\* batch that was just inserted changes neither the number of L1 metadata
\* rows nor the number of full-text index rows.
C17_BatchIdempotent ==
    [][(/\ DistillBatch
        /\ kdb.call = [op |-> "batch", batch |-> kdb'.call.batch, ok |-> TRUE])
          => /\ Cardinality(kdb'.db.l1) = Cardinality(kdb.db.l1)
             /\ Len(kdb'.db.fts) = Len(kdb.db.fts)]_vars

\* C18: a metadata record ingested again under a doc_id that is already
\* stored overwrites it: the stored L1 row afterwards carries the values of
\* the record ingested last.
C18_ReingestOverwrites ==
    [][(DistillBatch \/ DistillMetadataOnly)
          => \A i \in 1..Len(kdb'.call.batch) :
                (/\ HasRow(kdb.db.l1, MetadataDocId(kdb'.call.batch[i]))
                 /\ \A j \in (i + 1)..Len(kdb'.call.batch) :
                       MetadataDocId(kdb'.call.batch[j])
                           # MetadataDocId(kdb'.call.batch[i]))
                  => [doc_id |-> MetadataDocId(kdb'.call.batch[i]),
                      titolo |-> kdb'.call.batch[i].titolo] \in kdb'.db.l1]_vars

\* C19: distill_document is atomic: when the call fails, nothing it wrote
\* remains, neither in the level tables and the full-text index nor among
\* the L5 full-text files.
C19_DistillAtomic ==
    [][DistillDocumentFails => kdb'.db = kdb.db /\ kdb'.files = kdb.files]_vars

\* C20: in Executor map a failed item is re-submitted at most max_retries
\* times, map returns only when every re-submitted attempt has finished, and
\* the result of an attempt that succeeded is in the returned list.
C20_RetriesAwaitedAndReturned ==
    /\ \A k \in 1..Len(pool.futures) :
          pool.futures[k].retry_count <= pool.max_retries
    /\ pool.pc = "returned"
          => \A k \in 1..Len(pool.futures) :
                /\ pool.futures[k].state # "pending"
                /\ pool.futures[k].state = "ok"
                      => \E j \in 1..Len(pool.returned) :
                            pool.returned[j] = FnResult(pool.items[pool.futures[k].idx])

\* C21: in Executor map an item whose last allowed attempt has failed is not
\* in the returned list and is counted as failed exactly once: when map has
\* returned and every attempt has finished, the failed counter equals the
\* number of such items.
ExhaustedItems ==
    {i \in 1..Len(pool.items) :
        \E k \in 1..Len(pool.futures) :
            /\ pool.futures[k].idx = i
            /\ pool.futures[k].state = "failed"
            /\ pool.futures[k].retry_count = pool.max_retries}

C21_ExhaustedDroppedAndCounted ==
    (/\ pool.pc = "returned"
     /\ \A k \in 1..Len(pool.futures) : pool.futures[k].state \in {"ok", "failed"})
        => /\ pool.tracker.failed = Cardinality(ExhaustedItems)
           /\ \A i \in ExhaustedItems :
                 \A j \in 1..Len(pool.returned) :
                    pool.returned[j] # FnResult(pool.items[i])

\* C22: the list map returns holds the results in the order of the input
\* items, whatever the order in which the items completed.
C22_ResultsInInputOrder ==
    pool.pc = "returned"
        => \A i, j \in 1..Len(pool.returned) :
              i < j => pool.returned[i] < pool.returned[j]

C22_Witness ==
    /\ pool.pc = "returned"
    /\ pool.yielded = <<2, 1>>
    /\ pool.returned = <<FnResult(1), FnResult(2)>>

DependsDirectly(stages, a, b) ==
    /\ HasStage(stages, a) /\ HasStage(stages, b)
    /\ \E i \in 1..Len(DependsOn(stages, a)) : DependsOn(stages, a)[i] = b

RECURSIVE DependsWithin(_, _, _, _)
DependsWithin(stages, a, b, k) ==
    IF k = 0 THEN FALSE
    ELSE \/ DependsDirectly(stages, a, b)
         \/ \E i \in 1..Len(stages) :
               /\ DependsDirectly(stages, a, stages[i].name)
               /\ DependsWithin(stages, stages[i].name, b, k - 1)

\* no stage depends on itself, directly or through other stages
Acyclic(stages) ==
    \A i \in 1..Len(stages) :
        ~DependsWithin(stages, stages[i].name, stages[i].name, Len(stages))

\* C24: Pipeline.run executes the stages in a topological order: when a
\* stage starts, every stage it depends on has finished, and its input is
\* the output of the stage it depends on, or the items if it depends on none.
C24_StagesInTopologicalOrder ==
    [][(StageStart /\ pipe'.pc = "stage")
          => LET deps == DependsOn(pipe.stages, pipe.order[pipe.k])
             IN  /\ \A i \in 1..Len(deps) :
                       HasStage(pipe.stages, deps[i])
                          => HasResults(pipe.stage_results, deps[i])
                 /\ pipe'.input = IF deps = <<>> THEN PipelineItems
                                  ELSE ResultsOf(pipe.stage_results, deps[1])]_vars

\* C25: acyclicity is enforced at add_stage time: no add_stage call leaves
\* the pipeline with a dependency cycle.
C25_AcyclicAfterAddStage ==
    [][add_stage => Acyclic(pipe'.stages)]_vars

MaxDataLen == 3         \* bytes of the data given to compress, at most

ByteBits == 2
Bytes == 0..(Pow2(ByteBits) - 1)

CrcBits == 8
CrcMask == Pow2(CrcBits) - 1
\* the generator polynomial x^8 + x^2 + x + 1, without its leading term
CrcPoly == Pow2(2) + Pow2(1) + Pow2(0)

RECURSIVE Xor(_, _)
Xor(a, b) ==
    IF a = 0 THEN b
    ELSE IF b = 0 THEN a
    ELSE (((a % 2) + (b % 2)) % 2) + 2 * Xor(a \div 2, b \div 2)

\* one bit enters the register
CrcBit(r, bit) ==
    LET fb == ((r \div Pow2(CrcBits - 1)) + bit) % 2
        sh == (r * 2) % Pow2(CrcBits)
    IN  IF fb = 1 THEN Xor(sh, CrcPoly) ELSE sh

\* one byte enters the register
CrcByte(r, byte) == CrcBit(CrcBit(r, byte \div 2), byte % 2)

RECURSIVE CrcUpdate(_, _)
CrcUpdate(r, data) ==
    IF data = <<>> THEN r ELSE CrcUpdate(CrcByte(r, Head(data)), Tail(data))

\* zlib.crc32(data) & 0xFFFFFFFF
crc32(data) == Xor(CrcUpdate(CrcMask, data), CrcMask)

\* the data compress is given
DataChoices == UNION {[1..n -> Bytes] : n \in 0..MaxDataLen}

Algos == {"none", "zlib"}

\* zlib.compress: a run of one byte is coded by its length and the byte,
\* anything else is stored as it is with an end mark
Deflate(data) ==
    IF \A i \in 1..Len(data) : data[i] = data[1]
    THEN <<Len(data) - 1, data[1]>>
    ELSE Append(data, 0)

\* zlib.decompress accepts the payload
Inflates(payload) ==
    \/ Len(payload) = 2
    \/ Len(payload) >= 3 /\ payload[Len(payload)] = 0

\* zlib.decompress of a payload it accepts
Inflate(payload) ==
    IF Len(payload) = 2
    THEN [i \in 1..(payload[1] + 1) |-> payload[2]]
    ELSE SubSeq(payload, 1, Len(payload) - 1)

\* _pack_header followed by the payload
Frame(algo, original_size, crc, payload) ==
    [magic |-> algo, original_size |-> original_size,
     crc |-> crc % Pow2(CrcBits), payload |-> payload]

\* Compressor.compress(data, algo)
compress(data, algo) ==
    IF data = <<>> THEN Frame("none", 0, 0, <<>>)
    ELSE LET crc == crc32(data)
             compressed == IF algo = "none" THEN data ELSE Deflate(data)
         IN  IF Len(compressed) >= Len(data)
             THEN Frame("none", Len(data), crc, data)
             ELSE Frame(algo, Len(data), crc, compressed)

\* the bytes decompress decodes from the payload, before the integrity check
Decodes(frame) == frame.magic = "none" \/ Inflates(frame.payload)

Decoded(frame) ==
    IF frame.magic = "none" THEN frame.payload ELSE Inflate(frame.payload)

\* "if stored_crc != 0 and actual_crc != stored_crc: raise ValueError"
CrcMismatch(stored_crc, actual_crc) ==
    stored_crc # 0 /\ actual_crc # stored_crc

\* Compressor.decompress(frame): the decoded bytes, or an exception of the
\* decoder or of the integrity check
decompress(frame) ==
    IF ~Decodes(frame) THEN [raised |-> TRUE, result |-> <<>>]
    ELSE LET result == Decoded(frame) IN
         IF CrcMismatch(frame.crc, crc32(result))
         THEN [raised |-> TRUE, result |-> <<>>]
         ELSE [raised |-> FALSE, result |-> result]

NoOutcome == [raised |-> FALSE, result |-> <<>>]

InitCompress ==
    /\ feed = NoFeeds /\ cli = [sources |-> {}, targets |-> {}] /\ tree = NoTree
    /\ store = {} /\ persisted = [s \in Sources |-> NoProgress]
    /\ cmdlog = NoLog /\ pc = "idle" /\ queue = <<>> /\ call = NoCall
    /\ prog = NoProgress /\ batch_count = 0 /\ apcontinue = ""
    /\ attempt = 0 /\ slept = <<>> /\ wait = 0 /\ resp = NoResp
    /\ sent = NoRequest /\ inserted = 0 /\ raising = FALSE /\ unsaved = 0
    /\ SHUTDOWN_REQUESTED = FALSE
    /\ scan = NoScan /\ scan_state = NoScanState
    /\ pipe = NoPipe /\ pool = NoPool /\ kdb = NoKdb
    /\ trk = NoTracker /\ bp = NoBatchProcessor
    /\ tiers = NoTiers /\ backend = NoBackend
    /\ ftsidx = NoFts /\ kb = NoKb
    /\ \E data \in DataChoices :
          codec = [pc |-> "data", data |-> data, frame |-> Frame("none", 0, 0, <<>>),
                   mutated |-> FALSE, outcome |-> NoOutcome]

\* compress is called on the data
Compress ==
    /\ codec.pc = "data"
    /\ \E algo \in Algos :
          codec' = [codec EXCEPT !.pc = "frame",
                                 !.frame = compress(codec.data, algo)]
    /\ UNCHANGED <<harvest_vars, SHUTDOWN_REQUESTED, local_vars, pipe, pool, kdb,
                   trk, bp, tiers, backend, ftsidx, kb>>

\* one byte of the payload of the stored frame is changed
Corrupt ==
    /\ codec.pc = "frame" /\ ~codec.mutated
    /\ \E i \in 1..Len(codec.frame.payload) :
          \E b \in Bytes \ {codec.frame.payload[i]} :
              codec' = [codec EXCEPT !.frame.payload[i] = b, !.mutated = TRUE]
    /\ UNCHANGED <<harvest_vars, SHUTDOWN_REQUESTED, local_vars, pipe, pool, kdb,
                   trk, bp, tiers, backend, ftsidx, kb>>

\* decompress is called on the frame
Decompress ==
    /\ codec.pc = "frame"
    /\ codec' = [codec EXCEPT !.pc = "done", !.outcome = decompress(codec.frame)]
    /\ UNCHANGED <<harvest_vars, SHUTDOWN_REQUESTED, local_vars, pipe, pool, kdb,
                   trk, bp, tiers, backend, ftsidx, kb>>

NextCompress ==
    \/ Compress
    \/ Corrupt
    \/ Decompress

SpecCompress == InitCompress /\ [][NextCompress]_vars

(***************************************************************************)
(* The three full-text searches: DistilledKnowledgeDB.search               *)
(* (knowledge_distiller.py), SQLiteFTSIndex.search (knowledge_base.py) and *)
(* FTS5SearchEngine.search (search_engine.py).  The text of a query is a   *)
(* list of blank-separated tokens; the index holds one document, which     *)
(* has the word "cat".                                                     *)
(***************************************************************************)
MaxQueryLen == 3        \* tokens of the text of a query, at most

\* a word, a word of two letters, an operator of the FTS5 query language
\* and a punctuation mark
QueryTokens == {"cat", "ab", "AND", "("}

QueryTexts == UNION {[1..n -> QueryTokens] : n \in 0..MaxQueryLen}

SearchEngines == {"distiller", "fts_index", "fts5_engine"}

\* re.sub(r'[^\w\s]', ' ', query).split(): the punctuation is blanked
WordTokens(text) == SelectSeq(text, LAMBDA t : t # "(")

\* the terms next to each other, " OR " between them
RECURSIVE JoinOr(_)
JoinOr(terms) ==
    IF Len(terms) <= 1 THEN terms
    ELSE <<Head(terms), "OR">> \o JoinOr(Tail(terms))

\* "terms = [w for w in safe_q.split() if len(w) > 2]; ' OR '.join(terms)"
OrQuery(text) == JoinOr(SelectSeq(WordTokens(text), LAMBDA t : t # "ab"))

\* FTS5SearchEngine._build_fts_query: the empty phrase for no token, else
\* the tokens with a prefix star on the last one
build_fts_query(text) ==
    IF WordTokens(text) = <<>> THEN <<"\"\"">> ELSE Append(WordTokens(text), "*")

\* the string bound to MATCH, or <<>> if the search returns before it
MatchQuery(engine, text) ==
    IF engine = "fts5_engine" THEN build_fts_query(text) ELSE OrQuery(text)

\* the FTS5 query parser accepts the string: an operator stands between two
\* terms, a star follows a term
IsTerm(t) == t \in {"cat", "ab", "\"\""}

FtsParses(q) ==
    /\ q # <<>>
    /\ \A i \in 1..Len(q) :
          /\ q[i] \in {"AND", "OR"} =>
                i > 1 /\ i < Len(q) /\ IsTerm(q[i - 1]) /\ IsTerm(q[i + 1])
          /\ q[i] = "*" => i > 1 /\ IsTerm(q[i - 1])

\* the rows the MATCH of a parsed query selects
MatchRows(q) == IF \E i \in 1..Len(q) : q[i] = "cat" THEN {1} ELSE {}

\* conn.execute(sql, params): the rows, or sqlite3.OperationalError
Execute(q) ==
    IF FtsParses(q) THEN [raised |-> FALSE, rows |-> MatchRows(q)]
    ELSE [raised |-> TRUE, rows |-> {}]

\* the exception of the execute is caught by the search: SQLiteFTSIndex
\* ("except Exception: return []") and FTS5SearchEngine ("rows = []") do,
\* DistilledKnowledgeDB has no handler
CatchesExecute(engine) == engine \in {"fts_index", "fts5_engine"}

\* search(query) of the engine
search(engine, text) ==
    LET q == MatchQuery(engine, text) IN
    IF q = <<>> THEN [raised |-> FALSE, rows |-> {}]
    ELSE IF Execute(q).raised /\ CatchesExecute(engine)
    THEN [raised |-> FALSE, rows |-> {}]
    ELSE Execute(q)

InitSearch ==
    /\ feed = NoFeeds /\ cli = [sources |-> {}, targets |-> {}] /\ tree = NoTree
    /\ store = {} /\ persisted = [s \in Sources |-> NoProgress]
    /\ cmdlog = NoLog /\ pc = "idle" /\ queue = <<>> /\ call = NoCall
    /\ prog = NoProgress /\ batch_count = 0 /\ apcontinue = ""
    /\ attempt = 0 /\ slept = <<>> /\ wait = 0 /\ resp = NoResp
    /\ sent = NoRequest /\ inserted = 0 /\ raising = FALSE /\ unsaved = 0
    /\ SHUTDOWN_REQUESTED = FALSE
    /\ scan = NoScan /\ scan_state = NoScanState
    /\ pipe = NoPipe /\ pool = NoPool /\ kdb = NoKdb
    /\ trk = NoTracker /\ bp = NoBatchProcessor
    /\ tiers = NoTiers /\ backend = NoBackend
    /\ codec = NoCodec /\ kb = NoKb
    /\ \E engine \in SearchEngines, text \in QueryTexts :
          ftsidx = [pc |-> "query", engine |-> engine, text |-> text,
                    outcome |-> [raised |-> FALSE, rows |-> {}]]

\* the search is called with the text
Search ==
    /\ ftsidx.pc = "query"
    /\ ftsidx' = [ftsidx EXCEPT !.pc = "done",
                                !.outcome = search(ftsidx.engine, ftsidx.text)]
    /\ UNCHANGED <<harvest_vars, SHUTDOWN_REQUESTED, local_vars, pipe, pool, kdb,
                   trk, bp, tiers, backend, codec, kb>>

NextSearch == Search

SpecSearch == InitSearch /\ [][NextSearch]_vars

(***************************************************************************)
(* KnowledgeBase.query (knowledge_base.py) in hybrid mode: the vector      *)
(* search and the full-text search each return a list of chunks, which     *)
(* query merges, filters, reranks and cuts to n_results.                   *)
(***************************************************************************)
MaxChunks == 3          \* chunks of the knowledge base

ChunkIds == 1..MaxChunks

\* the result lists a search may return: chunks in any order, none twice
ResultLists ==
    {l \in UNION {[1..n -> ChunkIds] : n \in 0..MaxChunks} :
        \A i, j \in 1..Len(l) : l[i] = l[j] => i = j}

\* the reliability stored with a chunk: the last chunk is below the minimum
Reliable(chunk_id) == chunk_id < MaxChunks \/ MaxChunks = 1

QueryResult(chunk_id, source) == [chunk_id |-> chunk_id, source |-> source]

\* step 1: one result per chunk of the vector search, source "vector"
VectorResults(ids) == [i \in 1..Len(ids) |-> QueryResult(ids[i], "vector")]

\* step 2: "if not any(r['chunk_id'] == fr['chunk_id'] for r in results):
\* results.append(...)" for each result of the full-text search in turn
RECURSIVE MergeFts(_, _)
MergeFts(results, ids) ==
    IF ids = <<>> THEN results
    ELSE LET present == \E i \in 1..Len(results) : results[i].chunk_id = Head(ids)
         IN  MergeFts(IF present THEN results
                      ELSE Append(results, QueryResult(Head(ids), "fts")),
                      Tail(ids))

\* step 3: the results below min_reliability are dropped
FilterReliable(results) == SelectSeq(results, LAMBDA r : Reliable(r.chunk_id))

\* step 5: _rerank sorts by final_score, in which a vector result has the
\* higher source bonus; the other factors are taken equal and the sort is
\* stable
Rerank(results) ==
    SelectSeq(results, LAMBDA r : r.source = "vector")
        \o SelectSeq(results, LAMBDA r : r.source = "fts")

\* "return results[:n_results]"
FirstN(results, n) == SubSeq(results, 1, IF Len(results) < n THEN Len(results) ELSE n)

InitQuery ==
    /\ feed = NoFeeds /\ cli = [sources |-> {}, targets |-> {}] /\ tree = NoTree
    /\ store = {} /\ persisted = [s \in Sources |-> NoProgress]
    /\ cmdlog = NoLog /\ pc = "idle" /\ queue = <<>> /\ call = NoCall
    /\ prog = NoProgress /\ batch_count = 0 /\ apcontinue = ""
    /\ attempt = 0 /\ slept = <<>> /\ wait = 0 /\ resp = NoResp
    /\ sent = NoRequest /\ inserted = 0 /\ raising = FALSE /\ unsaved = 0
    /\ SHUTDOWN_REQUESTED = FALSE
    /\ scan = NoScan /\ scan_state = NoScanState
    /\ pipe = NoPipe /\ pool = NoPool /\ kdb = NoKdb
    /\ trk = NoTracker /\ bp = NoBatchProcessor
    /\ tiers = NoTiers /\ backend = NoBackend
    /\ codec = NoCodec /\ ftsidx = NoFts
    /\ \E v \in ResultLists, f \in ResultLists, n \in 1..MaxChunks :
          kb = [pc |-> "vector", vector |-> v, fts |-> f, n_results |-> n,
                results |-> <<>>, returned |-> <<>>]

\* the vector search returns and its results open the list
QueryVector ==
    /\ kb.pc = "vector"
    /\ kb' = [kb EXCEPT !.pc = "fts", !.results = VectorResults(kb.vector)]
    /\ UNCHANGED <<harvest_vars, SHUTDOWN_REQUESTED, local_vars, pipe, pool, kdb,
                   trk, bp, tiers, backend, codec, ftsidx>>

\* the full-text search returns and its results are merged into the list
QueryFts ==
    /\ kb.pc = "fts"
    /\ kb' = [kb EXCEPT !.pc = "merged", !.results = MergeFts(kb.results, kb.fts)]
    /\ UNCHANGED <<harvest_vars, SHUTDOWN_REQUESTED, local_vars, pipe, pool, kdb,
                   trk, bp, tiers, backend, codec, ftsidx>>

\* the list is filtered, reranked and cut and query returns it (no
\* domain_filter is given)
QueryReturn ==
    /\ kb.pc = "merged"
    /\ kb' = [kb EXCEPT !.pc = "done",
                        !.returned = FirstN(Rerank(FilterReliable(kb.results)),
                                            kb.n_results)]
    /\ UNCHANGED <<harvest_vars, SHUTDOWN_REQUESTED, local_vars, pipe, pool, kdb,
                   trk, bp, tiers, backend, codec, ftsidx>>

NextQuery ==
    \/ QueryVector
    \/ QueryFts
    \/ QueryReturn

SpecQuery == InitQuery /\ [][NextQuery]_vars

\* the tier TieredStorage.get finds the key in: the first of hot, warm and
\* cold that holds it
FoundIn(t, key) ==
    IF exists(t.hot, key) THEN "hot"
    ELSE IF t.has_warm /\ exists(t.warm, key) THEN "warm"
    ELSE IF t.has_cold /\ exists(t.cold, key) THEN "cold"
    ELSE "none"

\* C27: TieredStorage.get returns the first copy found probing hot, warm,
\* cold, and a key found in a slower tier is copied to the faster tier
\* when, and only when, its read count has reached 3.
C27_GetPromotesOnThirdRead ==
    [][TierGet =>
          LET key == backend'.key
              at == FoundIn(tiers, key)
              reached == tiers'.access_log[key] >= PromoteReads
          IN  /\ backend'.raised <=> at = "none"
              /\ at # "none" => backend'.data = tiers[at][key]
              /\ at = "warm" => (tiers'.hot[key] = tiers.warm[key] <=> reached)
              /\ at = "cold" => (tiers'.warm[key] = tiers.cold[key] <=> reached)]_vars

\* C28: evict_cold(max_age_days) moves an object out of hot only if it is
\* older than the cutoff and has been read fewer than 3 times; an object
\* that fails either condition stays in hot, and a moved object is
\* afterwards in warm and no longer in hot.
C28_EvictOnlyOldAndRarelyRead ==
    [][EvictCold =>
          \A k \in Keys :
             exists(tiers.hot, k) =>
                IF /\ tiers.age[k] > backend'.max_age_days
                   /\ tiers.access_log[k] < PromoteReads
                   /\ tiers.has_warm
                THEN tiers'.hot[k] = NoData /\ tiers'.warm[k] = tiers.hot[k]
                ELSE tiers'.hot[k] = tiers.hot[k] /\ tiers'.warm[k] = tiers.warm[k]]_vars

C28_Witness ==
    /\ backend.op = "evict_cold"
    /\ \E k \in Keys :
          /\ tiers.hot[k] = NoData /\ tiers.warm[k] # NoData
          /\ tiers.cold[k] # NoData /\ tiers.cold[k] # tiers.warm[k]
          /\ tiers.access_log[k] = PromoteReads - 1

\* C29: a storage operation that keeps failing is retried up to max_retries
\* with delays retry_delay, 2 retry_delay, 4 retry_delay, ..., and then the
\* last exception is raised: an operation that raises has made max_retries
\* attempts and has slept between them.
C29_RetriedWithBackoff ==
    (backend.op = "backend_get" /\ backend.raised)
        => /\ backend.attempts = storage_max_retries
           /\ Len(backend.slept) >= storage_max_retries - 1
           /\ \A i \in 1..Len(backend.slept) :
                 backend.slept[i] = storage_retry_delay * Pow2(i - 1)

\* the records of the eligible files of the walk up to the given path
EligibleUpTo(path) ==
    {LocalDocId(tree[k].path) : k \in {j \in 1..Len(tree) :
                                   tree[j].kind = "ok" /\ tree[j].path <= path}}

C34_ResumeTakesUnfinishedRows ==
    [][CmdResume =>
        \A s \in Sources :
            (IF persisted[s] = NoProgress THEN FALSE
             ELSE persisted[s].status \in {"running", "paused"})
                => \E i \in 1..Len(queue') : SourceOf(queue'[i]) = s]_vars

\* C35: a harvest resumed on a progress whose feed was exhausted (records
\* fetched, empty cursor) does not get the first page of the feed again, and
\* the records counted in total_fetched never outnumber those of the feed.
C35_ExhaustedFeedNotRestarted ==
    [][/\ (FetchReturns /\ prog.total_fetched > 0 /\ prog.cursor = "")
            => ~(resp'.ok /\ resp'.batch = feed[SourceOf(call)][1])
       /\ (Update /\ call.fn \in {"openalex", "crossref"})
            => prog'.total_fetched <= FeedSize(feed[SourceOf(call)])]_vars

\* C36: in every state of an Executor map call, retries included, the
\* counters of the tracker add up to the total and none of them is negative.
C36_CountersAddUpAndNonNegative ==
    (pool # NoPool) =>
        IF pool.pc = "idle" THEN TRUE
        ELSE LET t == pool.tracker IN
             /\ t.completed + t.failed + t.running + t.pending = t.total
             /\ t.completed >= 0 /\ t.failed >= 0
             /\ t.running >= 0 /\ t.pending >= 0

\* C37: a local scan stopped by the cancellation flag saves its state with
\* status paused and with the last file it processed as last_file, so that
\* the next scan skips the files up to it.
C37_PausedScanKeepsAnchor ==
    [][(ScanEnd /\ SHUTDOWN_REQUESTED /\ scan.batch # <<>>) =>
          /\ scan_state'.status = "paused"
          /\ LocalDocId(scan_state'.last_file) = scan.batch[Len(scan.batch)]]_vars

\* C38: a scan resumed from a last_file that is no longer in the tree still
\* processes the eligible files: it does not end completed with no file
\* taken and no batch flushed.
C38_MissingAnchorStillScans ==
    [][(/\ ScanEnd /\ ~SHUTDOWN_REQUESTED
        /\ scan.last_file # NoFile
        /\ \A k \in 1..Len(tree) : tree[k].path # scan.last_file
        /\ \E k \in 1..Len(tree) : tree[k].kind = "ok")
          => \/ scan.batch # <<>>
             \/ scan_state.last_file # scan.last_file]_vars

\* C39: get returns the bytes most recently written for the key by put,
\* whichever tier the put went to and whatever was promoted or evicted since.
C39_GetReturnsLatestPut ==
    [][TierGet =>
        LET key == backend'.key IN
        tiers.latest[key] # NoData =>
            /\ ~backend'.raised
            /\ backend'.data = tiers.latest[key]]_vars

\* the items of a list of batches, in order
RECURSIVE Flatten(_)
Flatten(batches) ==
    IF batches = <<>> THEN <<>> ELSE Head(batches) \o Flatten(Tail(batches))

\* the number of places of a list that hold the item
Occurrences(list, item) ==
    Cardinality({i \in 1..Len(list) : list[i] = item})

\* C40: every item whose feed call has returned is in the buffer, among the
\* items process_all has drained, or in a batch passed to process_fn, once
\* in all: none is dropped, none is processed twice, and what is in the
\* buffer is what the next process_all drains.
C40_FedItemsProcessedOnce ==
    \A item \in bp.accepted :
        Occurrences(bp.q \o bp.cons.items \o Flatten(bp.processed), item) = 1

\* C31: decompress fails whenever the CRC32 of the decoded bytes differs from
\* the CRC of the header; in particular it fails on every frame one byte of
\* whose payload was changed.
C31_CorruptedFrameFails ==
    [][Decompress =>
        /\ (Decodes(codec.frame) /\ crc32(Decoded(codec.frame)) # codec.frame.crc)
              => codec'.outcome.raised
        /\ codec.mutated => codec'.outcome.raised]_vars

\* C32: a search whose full-text query the FTS engine cannot parse returns
\* an empty result set and raises nothing, whichever of the three searches
\* it is.
C32_InvalidQueryReturnsEmpty ==
    [][Search =>
        LET q == MatchQuery(ftsidx.engine, ftsidx.text) IN
        (q # <<>> /\ ~FtsParses(q)) =>
            /\ ~ftsidx'.outcome.raised
            /\ ftsidx'.outcome.rows = {}]_vars

\* C33: in hybrid mode the merged list holds every chunk returned by the
\* vector search or by the full-text search once, and a chunk returned by
\* both is represented by its full-text result.
C33_FtsResultWinsDuplicate ==
    [][QueryFts =>
        LET merged == kb'.results IN
        /\ {merged[i].chunk_id : i \in 1..Len(merged)} = Range(kb.vector) \cup Range(kb.fts)
        /\ \A i, j \in 1..Len(merged) : merged[i].chunk_id = merged[j].chunk_id => i = j
        /\ \A i \in 1..Len(merged) :
              merged[i].chunk_id \in Range(kb.vector) \cap Range(kb.fts)
                  => merged[i].source = "fts"]_vars

====
